---------------------------- MODULE Spec2Model ----------------------------
(***************************************************************************)
(* A model of the playform terrain server: the surface sampler and the     *)
(* block mesher (generate_voxel and generate_block,                        *)
(* server/src/terrain/terrain_gen.rs), the dispatcher                      *)
(* (update_gaia, server/src/update_gaia.rs) and the client request         *)
(* handler (apply_client_update, server/src/client_recv_thread.rs).        *)
(***************************************************************************)
EXTENDS Integers, Sequences, FiniteSets, TLC

VARIABLES
  corners,        \* generate_voxel: corners[x][y][z], the field at the 8 corners
  voxel,          \* generate_voxel: its result, once it has run
  pc,             \* per thread: where it is in update_gaia / apply_client_update
  req,            \* per thread: the request it is processing
  mutex,          \* Server's Mutexes: who holds each, and whether it is poisoned
  all_blocks,     \* terrain_loader.terrain: the mesh held for each (position, lod)
  voxels,         \* terrain_loader.terrain.voxels: the octree (edits applied, slots sampled)
  lod_map,        \* terrain_loader.lod_map: the owners of each (position, lod)
  physics,        \* server.physics: the entity ids whose bounds are registered
  next_id,        \* server.id_allocator
  next_client,    \* server.client_allocator
  clients,        \* server.clients: the ids in the map
  queue,          \* per client id: every message sent on its channel, in order
  connected,      \* per client id: its channel has a live receiver
  players,        \* server.players: the ids in the map
  issued,         \* the number of requests started so far
  local,          \* per thread: the locals of the running request
  effects,        \* per thread: what the running or last request did (history)
  heightmap,      \* generate_block: the HeightMap behind field_contains
  voxel_tree,     \* generate_block: voxels, the octree (the slots that are not Empty)
  id_allocator,   \* generate_block: the IdAllocator, the next id it gives
  call,           \* generate_block: the running call (arguments, loop position)
  terrain_block,  \* generate_block: block, the TerrainBlock being built
  quads,          \* the voxel edge behind each quad emitted by the call (history)
  accesses,       \* the get_voxel! accesses of the last step (history)
  returned,       \* the calls that have returned, with their blocks (history)
  rng,            \* Add: what the random source returned to the handler (history)
  brush,          \* Add: the tree brush handed to update_gaia in AddTree, if any
  world_position, \* BlockPosition: the world position given or computed (in halves)
  block_position, \* BlockPosition: the block position given or computed
  convert,        \* BlockPosition: the conversions done so far, and the p they began with
  Queue,          \* glw Queue: contents, head, tail, length
  elems,          \* glw Queue: the elements it should hold, oldest first (history)
  ops,            \* glw Queue: how many operations were applied to it, and which (history)
  last,           \* glw Queue: the last operation, the queue before it, whether it failed
  series,         \* closure_series: the series, the closure to invoke next, the last two invocations
  chan,           \* process_receiver: the messages in the channel, oldest first
  sender,         \* process_receiver: the Sender: alive or dropped, and all it sent (history)
  process,        \* process_receiver: the call, what it applied, all that was received (history)
  view,           \* apply_client_to_view: the view
  applied,        \* apply_client_to_view: the last update applied and the view before it (history)
  tile,           \* add_tile: the tile asked for and the block add_tile left
  socket          \* per client id: what its sender thread wrote to the socket, in order

voxel_vars == <<corners, voxel>>
server_vars ==
  <<pc, req, mutex, all_blocks, voxels, lod_map, physics, next_id, next_client,
    clients, queue, connected, players, issued, local, effects>>
block_vars ==
  <<heightmap, voxel_tree, id_allocator, call, terrain_block, quads,
    accesses, returned>>
add_vars == <<rng, brush>>
position_vars == <<world_position, block_position, convert>>
queue_vars == <<Queue, elems, ops, last>>
series_vars == <<series>>
process_vars == <<chan, sender, process>>
view_vars == <<view, applied>>
tile_vars == <<tile>>
socket_vars == <<socket>>
lib_vars ==
  <<add_vars, position_vars, queue_vars, series_vars, process_vars, view_vars,
    tile_vars, socket_vars>>
not_add == <<voxel_vars, server_vars, block_vars, socket_vars, position_vars, queue_vars, series_vars,
    process_vars, view_vars, tile_vars>>
not_position == <<voxel_vars, server_vars, block_vars, socket_vars, add_vars, queue_vars, series_vars,
    process_vars, view_vars, tile_vars>>
not_series ==
  <<voxel_vars, server_vars, block_vars, socket_vars, add_vars, position_vars, queue_vars,
    process_vars, view_vars, tile_vars>>
not_process ==
  <<voxel_vars, server_vars, block_vars, socket_vars, add_vars, position_vars, queue_vars,
    series_vars, view_vars, tile_vars>>
not_view ==
  <<voxel_vars, server_vars, block_vars, socket_vars, add_vars, position_vars, queue_vars,
    series_vars, process_vars, tile_vars>>
not_tile ==
  <<voxel_vars, server_vars, block_vars, socket_vars, add_vars, position_vars, queue_vars,
    series_vars, process_vars, view_vars>>
not_queue == <<voxel_vars, server_vars, block_vars, socket_vars, add_vars, position_vars, series_vars,
    process_vars, view_vars, tile_vars>>
not_socket ==
  <<voxel_vars, server_vars, block_vars, add_vars, position_vars, queue_vars,
    series_vars, process_vars, view_vars, tile_vars>>
vars == <<voxel_vars, server_vars, block_vars, lib_vars>>

\* No Add handled yet.
AddIdle ==
  /\ rng = <<>>
  /\ brush = [tag |-> "none"]

\* No position converted yet.
PositionIdle ==
  /\ world_position = <<>>
  /\ block_position = <<>>
  /\ convert = [op |-> "none", p |-> <<>>]

\* No Queue made yet.
QueueIdle ==
  /\ Queue = [tag |-> "none"]
  /\ elems = <<>>
  /\ ops = [n |-> 0, pushed |-> 0, used |-> {}]
  /\ last = [op |-> "none", args |-> <<>>, before |-> [tag |-> "none"], used |-> {},
            failed |-> FALSE]

\* No closure series made yet.
SeriesIdle == series = [state |-> "none", closures |-> 0, next |-> 0, calls |-> <<>>]

\* A channel with nothing sent, and process_receiver not called yet.
ProcessIdle ==
  /\ chan = <<>>
  /\ sender = [alive |-> TRUE, sent |-> <<>>]
  /\ process = [state |-> "idle", applied |-> <<>>, received |-> <<>>]

\* No view made yet.
ViewIdle ==
  /\ view = [tag |-> "none"]
  /\ applied = [n |-> 0, up |-> [tag |-> "none", arg |-> 0], before |-> [tag |-> "none"]]

\* No tile generated yet.
TileIdle == tile = [tag |-> "none"]

\* The operations outside the server and the mesher, not yet run.
LibIdle ==
  /\ AddIdle
  /\ PositionIdle
  /\ QueueIdle
  /\ SeriesIdle
  /\ ProcessIdle
  /\ ViewIdle
  /\ TileIdle

(***************************************************************************)
(* generate_voxel                                                          *)
(***************************************************************************)

Bit == 0 .. 1

\* let half = 0x80;
half == 128

\* y << 8
Shl8(v) == v * 256

\* `as u8`
AsU8(v) == v % 256

\* A Frac8 holds the numerator of a fraction over 256.
Frac8_of(numerator) == numerator

\* The result of generate_voxel before it has run, and its None.
Pending == [tag |-> "pending"]
None == [tag |-> "none"]

\* edge!: r = corners[a] != corners[b]
edge(c, x1, y1, z1, x2, y2, z2) == c[x1][y1][z1] # c[x2][y2][z2]

\* edge! with the test of the lower corner made on the upper corner
edge_faces_mut(c, x1, y1, z1, x2, y2, z2) ==
  edge(c, x1, y1, z1, x2, y2, z2) /\ c[x2][y2][z2]

\* edge!: if r && corners[a] { facing[f] = true }
edge_faces(c, x1, y1, z1, x2, y2, z2) ==
  edge(c, x1, y1, z1, x2, y2, z2) /\ c[x1][y1][z1]

\* x_edges with the second corner of each edge mistyped as the first
x_edges_of_mut(c) ==
  [i \in Bit |-> [j \in Bit |-> edge(c, 0, i, j, 0, i, j)]]

\* x_edges, as the literal lists them: row y, column z
x_edges_of(c) ==
  [i \in Bit |-> [j \in Bit |-> edge(c, 0, i, j, 1, i, j)]]

\* y_edges, as the literal lists them: row z, column x
y_edges_of(c) ==
  [i \in Bit |-> [j \in Bit |-> edge(c, j, 0, i, j, 1, i)]]

\* z_edges, as the literal lists them: row y, column x
z_edges_of(c) ==
  [i \in Bit |-> [j \in Bit |-> edge(c, j, i, 0, j, i, 1)]]

EdgeCrosses(c) ==
  [x_edges |-> x_edges_of(c), y_edges |-> y_edges_of(c), z_edges |-> z_edges_of(c)]

facing_of(c) ==
  << \E i, j \in Bit : edge_faces(c, 0, i, j, 1, i, j),
     \E i, j \in Bit : edge_faces(c, j, 0, i, j, 1, i),
     \E i, j \in Bit : edge_faces(c, j, i, 0, j, i, 1) >>

\* The four index pairs a `for a in 0..=1 { for b in 0..=1 {` loop visits.
Pairs == << <<0, 0>>, <<0, 1>>, <<1, 0>>, <<1, 1>> >>

\* for y, for z: if edges.x_edges[y][z] { vertex += (half, y << 8, z << 8) }
RECURSIVE x_loop(_, _)
x_loop(edges, k) ==
  IF k = 0 THEN <<0, 0, 0, 0>>
  ELSE LET acc == x_loop(edges, k - 1)
           y == Pairs[k][1]
           z == Pairs[k][2]
       IN IF edges.x_edges[y][z]
          THEN <<acc[1] + half, acc[2] + Shl8(y), acc[3] + Shl8(z), acc[4] + 1>>
          ELSE acc

\* for x, for z: if edges.y_edges[x][z] { vertex += (x << 8, half, z << 8) }
RECURSIVE y_loop(_, _)
y_loop(edges, k) ==
  IF k = 0 THEN <<0, 0, 0, 0>>
  ELSE LET acc == y_loop(edges, k - 1)
           x == Pairs[k][1]
           z == Pairs[k][2]
       IN IF edges.y_edges[x][z]
          THEN <<acc[1] + Shl8(x), acc[2] + half, acc[3] + Shl8(z), acc[4] + 1>>
          ELSE acc

\* for x, for y: if edges.z_edges[x][y] { vertex += (x << 8, y << 8, half) }
RECURSIVE z_loop(_, _)
z_loop(edges, k) ==
  IF k = 0 THEN <<0, 0, 0, 0>>
  ELSE LET acc == z_loop(edges, k - 1)
           x == Pairs[k][1]
           y == Pairs[k][2]
       IN IF edges.z_edges[x][y]
          THEN <<acc[1] + Shl8(x), acc[2] + Shl8(y), acc[3] + half, acc[4] + 1>>
          ELSE acc

\* The accumulated vertex (components 1..3) and n (component 4).
vertex_sum(edges) ==
  LET a == x_loop(edges, 4)
      b == y_loop(edges, 4)
      d == z_loop(edges, 4)
  IN <<a[1] + b[1] + d[1], a[2] + b[2] + d[2], a[3] + b[3] + d[3],
       a[4] + b[4] + d[4]>>

\* vertex.div_s(n): integer division of non-negative integers
div_s(v, n) == v \div n

generate_voxel(c) ==
  LET edges == EdgeCrosses(c)
      s == vertex_sum(edges)
      n == s[4]
  IN IF n = 0 THEN None
     ELSE [tag |-> "some",
           vertex |-> << Frac8_of(AsU8(div_s(s[1], n))),
                         Frac8_of(AsU8(div_s(s[2], n))),
                         Frac8_of(AsU8(div_s(s[3], n))) >>,
           edge_crosses |-> edges,
           facing |-> facing_of(c)]

(***************************************************************************)
(* The server: update_gaia and apply_client_update                         *)
(***************************************************************************)

\* Bounds of the model.
NThreads == 2
MaxClients == 2
MaxPosition == 1
MaxLod == 1
MaxRequests == 4

Threads == 1 .. NThreads
ClientIds == 1 .. MaxClients
Keys == (1 .. MaxPosition) \X (0 .. MaxLod)
OwnerIds == {1}

LockNames == {"terrain_loader", "clients", "players", "rng"}

NoBlock == [position |-> 0, lod |-> 0, id |-> 0, edits |-> 0]
NoKey == <<0, 0>>

\* A request: a ServerToGaia or a ClientToServer value.
Request(op, key, reason, id, bounds) ==
  [op |-> op, key |-> key, reason |-> reason, id |-> id, bounds |-> bounds]
NoRequest == Request("none", NoKey, "none", 0, {})

Message(type, key, block, arg) ==
  [type |-> type, position |-> key[1], lod |-> key[2], block |-> block, arg |-> arg]

\* ServerToClient::UpdateBlock(TerrainBlockSend { position, block, lod })
UpdateBlock(key, block) == Message("UpdateBlock", key, block, 0)

NoLocal == [block |-> NoBlock, todo |-> <<>>, key |-> NoKey, visited |-> {}]
NoEffects ==
  [sent |-> <<>>, inserted |-> FALSE, block |-> NoBlock, meshed |-> 0,
   reports |-> <<>>, cause |-> "none"]

Free(l) == mutex[l].holder = 0
Held(l, t) == mutex[l].holder = t

\* Mutex::lock() returning the guard
Acquire(m, l, t) == [m EXCEPT ![l].holder = t]

\* dropping a guard
Release(m, l) == [m EXCEPT ![l].holder = 0]

\* A panic unwinds the thread: every guard it holds (and the temporaries in
\* `also`) is dropped while panicking, which poisons its Mutex.
Unwind(t, also) ==
  [l \in LockNames |->
     IF mutex[l].holder = t \/ l \in also
     THEN [holder |-> 0, poisoned |-> TRUE]
     ELSE mutex[l]]

PanicFrom(t, why, also, eff) ==
  /\ pc' = [pc EXCEPT ![t] = "panicked"]
  /\ mutex' = Unwind(t, also)
  /\ effects' = [effects EXCEPT ![t] = [eff EXCEPT !.cause = why]]

Panic(t, why, also) == PanicFrom(t, why, also, effects[t])

Ready(t) == pc[t] \in {"idle", "done"} /\ issued < MaxRequests

Start(t, r, at) ==
  /\ Ready(t)
  /\ issued' = issued + 1
  /\ pc' = [pc EXCEPT ![t] = at]
  /\ req' = [req EXCEPT ![t] = r]
  /\ local' = [local EXCEPT ![t] = NoLocal]
  /\ effects' = [effects EXCEPT ![t] = NoEffects]

\* The keys in ascending (position, lod) order.
RECURSIVE SortKeys(_)
SortKeys(S) ==
  IF S = {} THEN <<>>
  ELSE LET k == CHOOSE a \in S :
                  \A b \in S : a[1] < b[1] \/ (a[1] = b[1] /\ a[2] <= b[2])
       IN <<k>> \o SortKeys(S \ {k})

\* generate_block: the mesh of `key` on the octree as it is now. Its triangles
\* take fresh ids from the id allocator; the block is identified by the first.
generate_block(key) ==
  [position |-> key[1], lod |-> key[2], id |-> next_id, edits |-> voxels.edits]

ServerInit ==
  /\ pc = [t \in Threads |-> "idle"]
  /\ req = [t \in Threads |-> NoRequest]
  /\ mutex = [l \in LockNames |-> [holder |-> 0, poisoned |-> FALSE]]
  /\ all_blocks = [k \in Keys |-> NoBlock]
  /\ voxels = [edits |-> 0, sampled |-> {}]
  /\ lod_map = [k \in Keys |-> {}]
  /\ physics = {}
  /\ next_id = 1
  /\ next_client = 1
  /\ clients = {}
  /\ queue = [c \in ClientIds |-> <<>>]
  /\ connected = [c \in ClientIds |-> FALSE]
  /\ socket = [c \in ClientIds |-> <<>>]
  /\ players = {}
  /\ issued = 0
  /\ local = [t \in Threads |-> NoLocal]
  /\ effects = [t \in Threads |-> NoEffects]

(************************* update_gaia: Load ******************************)

\* update_gaia(server, ServerToGaia::Load(position, lod, load_reason))
StartLoad(t) ==
  /\ \E k \in Keys :
       \/ \E o \in OwnerIds : Start(t, Request("Load", k, "Local", o, {}), "load_lock")
       \/ \E c \in ClientIds : Start(t, Request("Load", k, "ForClient", c, {}), "load_lock")
  /\ UNCHANGED <<mutex, all_blocks, voxels, lod_map, physics, next_id, next_client,
                 clients, queue, connected, players>>
  /\ UNCHANGED <<voxel_vars, block_vars, lib_vars>>

\* LoadLock without waiting for the Mutex to be free
LoadLock_mut(t) ==
  /\ pc[t] = "load_lock"
  /\ IF mutex["terrain_loader"].poisoned
     THEN Panic(t, "poisoned", {})
     ELSE /\ mutex' = Acquire(mutex, "terrain_loader", t)
          /\ pc' = [pc EXCEPT ![t] = "load_terrain"]
          /\ UNCHANGED effects
  /\ UNCHANGED <<req, all_blocks, voxels, lod_map, physics, next_id, next_client,
                 clients, queue, connected, players, issued, local>>
  /\ UNCHANGED <<voxel_vars, block_vars, lib_vars>>

\* let mut terrain_loader = server.terrain_loader.lock().unwrap();
LoadLock(t) ==
  /\ pc[t] = "load_lock"
  /\ Free("terrain_loader")
  /\ IF mutex["terrain_loader"].poisoned
     THEN Panic(t, "poisoned", {})
     ELSE /\ mutex' = Acquire(mutex, "terrain_loader", t)
          /\ pc' = [pc EXCEPT ![t] = "load_terrain"]
          /\ UNCHANGED effects
  /\ UNCHANGED <<req, all_blocks, voxels, lod_map, physics, next_id, next_client,
                 clients, queue, connected, players, issued, local>>
  /\ UNCHANGED <<voxel_vars, block_vars, lib_vars>>

\* terrain.load: the mesh already held for (position, lod) is reused
TerrainLoadCached(t) ==
  /\ pc[t] = "load_terrain"
  /\ all_blocks[req[t].key] # NoBlock
  /\ local' = [local EXCEPT ![t].block = all_blocks[req[t].key]]
  /\ pc' = [pc EXCEPT ![t] = "load_deliver"]
  /\ UNCHANGED <<req, mutex, all_blocks, voxels, lod_map, physics, next_id,
                 next_client, clients, queue, connected, players, issued, effects>>
  /\ UNCHANGED <<voxel_vars, block_vars, lib_vars>>

\* terrain.load: no mesh is held for (position, lod): the mesher must run
TerrainLoadMiss(t) ==
  /\ pc[t] = "load_terrain"
  /\ all_blocks[req[t].key] = NoBlock
  /\ pc' = [pc EXCEPT ![t] = "load_generate"]
  /\ UNCHANGED <<req, mutex, all_blocks, voxels, lod_map, physics, next_id,
                 next_client, clients, queue, connected, players, issued, local,
                 effects>>
  /\ UNCHANGED <<voxel_vars, block_vars, lib_vars>>

\* terrain.load: generate_block runs and its result is kept
TerrainLoadGenerate(t) ==
  /\ pc[t] = "load_generate"
  /\ LET b == generate_block(req[t].key)
     IN /\ all_blocks' = [all_blocks EXCEPT ![req[t].key] = b]
        /\ local' = [local EXCEPT ![t].block = b]
  /\ voxels' = [voxels EXCEPT !.sampled = @ \cup {req[t].key}]
  /\ next_id' = next_id + 1
  /\ effects' = [effects EXCEPT ![t].meshed = @ + 1]
  /\ pc' = [pc EXCEPT ![t] = "load_deliver"]
  /\ UNCHANGED <<req, mutex, lod_map, physics, next_client, clients, queue,
                 connected, players, issued>>
  /\ UNCHANGED <<voxel_vars, block_vars, lib_vars>>

\* TerrainLoader::insert_block: the owner is recorded for (position, lod)
insert_block_lod_map(m, key, owner) == [m EXCEPT ![key] = @ \cup {owner}]

\* TerrainLoader::insert_block: the block's bounds are registered with physics
insert_block_physics(ph, block) == ph \cup {block.id}

\* LoadReason::Local(owner) => TerrainLoader::insert_block(...); then the
\* terrain_loader guard is dropped
LoadInsertBlock(t) ==
  /\ pc[t] = "load_deliver"
  /\ req[t].reason = "Local"
  /\ lod_map' = insert_block_lod_map(lod_map, req[t].key, req[t].id)
  /\ physics' = insert_block_physics(physics, local[t].block)
  /\ effects' = [effects EXCEPT ![t].inserted = TRUE, ![t].block = local[t].block]
  /\ mutex' = Release(mutex, "terrain_loader")
  /\ pc' = [pc EXCEPT ![t] = "done"]
  /\ UNCHANGED <<req, all_blocks, voxels, next_id, next_client, clients, queue,
                 connected, players, issued, local>>
  /\ UNCHANGED <<voxel_vars, block_vars, lib_vars>>

\* LoadReason::ForClient(id) => let clients = server.clients.lock().unwrap();
LoadClientsLock(t) ==
  /\ pc[t] = "load_deliver"
  /\ req[t].reason = "ForClient"
  /\ Free("clients")
  /\ IF mutex["clients"].poisoned
     THEN Panic(t, "poisoned", {})
     ELSE /\ mutex' = Acquire(mutex, "clients", t)
          /\ pc' = [pc EXCEPT ![t] = "load_send"]
          /\ UNCHANGED effects
  /\ UNCHANGED <<req, all_blocks, voxels, lod_map, physics, next_id, next_client,
                 clients, queue, connected, players, issued, local>>
  /\ UNCHANGED <<voxel_vars, block_vars, lib_vars>>

\* let client = clients.get(&id).unwrap();
\* client.sender.send(Some(ServerToClient::UpdateBlock(..))).unwrap();
\* then both guards are dropped
LoadSend(t) ==
  /\ pc[t] = "load_send"
  /\ LET id == req[t].id
         msg == UpdateBlock(req[t].key, local[t].block)
     IN IF id \notin clients
        THEN Panic(t, "client_not_found", {}) /\ UNCHANGED queue
        ELSE IF ~connected[id]
        THEN Panic(t, "send_failed", {}) /\ UNCHANGED queue
        ELSE /\ queue' = [queue EXCEPT ![id] = Append(@, msg)]
             /\ effects' = [effects EXCEPT ![t].sent = Append(@, <<id, msg>>),
                                           ![t].block = local[t].block]
             /\ mutex' = Release(Release(mutex, "clients"), "terrain_loader")
             /\ pc' = [pc EXCEPT ![t] = "done"]
  /\ UNCHANGED <<req, all_blocks, voxels, lod_map, physics, next_id, next_client,
                 clients, connected, players, issued, local>>
  /\ UNCHANGED <<voxel_vars, block_vars, lib_vars>>

(****************** update_gaia: AddTree and RemoveSphere ******************)

\* update_gaia(server, ServerToGaia::AddTree(tree))
StartAddTree(t) ==
  /\ \E S \in SUBSET Keys : Start(t, Request("AddTree", NoKey, "none", 0, S), "brush_lock")
  /\ UNCHANGED <<mutex, all_blocks, voxels, lod_map, physics, next_id, next_client,
                 clients, queue, connected, players>>
  /\ UNCHANGED <<voxel_vars, block_vars, lib_vars>>

\* update_gaia(server, ServerToGaia::RemoveSphere(sphere))
StartRemoveSphere(t) ==
  /\ \E S \in SUBSET Keys :
       Start(t, Request("RemoveSphere", NoKey, "none", 0, S), "brush_lock")
  /\ UNCHANGED <<mutex, all_blocks, voxels, lod_map, physics, next_id, next_client,
                 clients, queue, connected, players>>
  /\ UNCHANGED <<voxel_vars, block_vars, lib_vars>>

\* BrushLock without waiting for the Mutex to be free
BrushLock_mut(t) ==
  /\ pc[t] = "brush_lock"
  /\ IF mutex["terrain_loader"].poisoned
     THEN Panic(t, "poisoned", {})
     ELSE /\ mutex' = Acquire(mutex, "terrain_loader", t)
          /\ pc' = [pc EXCEPT ![t] = "brush"]
          /\ UNCHANGED effects
  /\ UNCHANGED <<req, all_blocks, voxels, lod_map, physics, next_id, next_client,
                 clients, queue, connected, players, issued, local>>
  /\ UNCHANGED <<voxel_vars, block_vars, lib_vars>>

\* let mut terrain_loader = server.terrain_loader.lock().unwrap();
BrushLock(t) ==
  /\ pc[t] = "brush_lock"
  /\ Free("terrain_loader")
  /\ IF mutex["terrain_loader"].poisoned
     THEN Panic(t, "poisoned", {})
     ELSE /\ mutex' = Acquire(mutex, "terrain_loader", t)
          /\ pc' = [pc EXCEPT ![t] = "brush"]
          /\ UNCHANGED effects
  /\ UNCHANGED <<req, all_blocks, voxels, lod_map, physics, next_id, next_client,
                 clients, queue, connected, players, issued, local>>
  /\ UNCHANGED <<voxel_vars, block_vars, lib_vars>>

\* terrain.brush: the edit is applied to the octree; the blocks to regenerate
\* are the loaded (position, lod) that intersect brush_bounds
TerrainBrush(t) ==
  /\ pc[t] = "brush"
  /\ voxels' = [voxels EXCEPT !.edits = @ + 1]
  /\ local' = [local EXCEPT
       ![t].todo = SortKeys({k \in req[t].bounds : all_blocks[k] # NoBlock})]
  /\ pc' = [pc EXCEPT ![t] = "brush_next"]
  /\ UNCHANGED <<req, mutex, all_blocks, lod_map, physics, next_id, next_client,
                 clients, queue, connected, players, issued, effects>>
  /\ UNCHANGED <<voxel_vars, block_vars, lib_vars>>

\* terrain.brush: the next block is regenerated and handed to the closure
TerrainBrushBlock(t) ==
  /\ pc[t] = "brush_next"
  /\ local[t].todo # <<>>
  /\ LET key == Head(local[t].todo)
         b == generate_block(key)
     IN /\ all_blocks' = [all_blocks EXCEPT ![key] = b]
        /\ local' = [local EXCEPT ![t].todo = Tail(@), ![t].block = b,
                                  ![t].key = key, ![t].visited = {}]
        /\ voxels' = [voxels EXCEPT !.sampled = @ \cup {key}]
  /\ next_id' = next_id + 1
  /\ pc' = [pc EXCEPT ![t] = "report_lock"]
  /\ UNCHANGED <<req, mutex, lod_map, physics, next_client, clients, queue,
                 connected, players, issued, effects>>
  /\ UNCHANGED <<voxel_vars, block_vars, lib_vars>>

\* terrain.brush returns; the terrain_loader guard is dropped, and then, in
\* the Add handler, the rng guard that was held around update_gaia
BrushDone(t) ==
  /\ pc[t] = "brush_next"
  /\ local[t].todo = <<>>
  /\ mutex' = IF Held("rng", t)
              THEN Release(Release(mutex, "terrain_loader"), "rng")
              ELSE Release(mutex, "terrain_loader")
  /\ pc' = [pc EXCEPT ![t] = "done"]
  /\ UNCHANGED <<req, all_blocks, voxels, lod_map, physics, next_id, next_client,
                 clients, queue, connected, players, issued, local, effects>>
  /\ UNCHANGED <<voxel_vars, block_vars, lib_vars>>

\* |block, position, lod| { let clients = server.clients.lock().unwrap();
ReportLock(t) ==
  /\ pc[t] = "report_lock"
  /\ Free("clients")
  /\ LET eff == [effects[t] EXCEPT !.reports =
                    Append(@, [block |-> local[t].block, key |-> local[t].key,
                               clients |-> clients])]
     IN IF mutex["clients"].poisoned
        THEN PanicFrom(t, "poisoned", {}, eff)
        ELSE /\ mutex' = Acquire(mutex, "clients", t)
             /\ pc' = [pc EXCEPT ![t] = "report_send"]
             /\ effects' = [effects EXCEPT ![t] = eff]
  /\ UNCHANGED <<req, all_blocks, voxels, lod_map, physics, next_id, next_client,
                 clients, queue, connected, players, issued, local>>
  /\ UNCHANGED <<voxel_vars, block_vars, lib_vars>>

\* for client in clients.values() { client.sender.send(Some(UpdateBlock)).unwrap(); }
\* (a HashMap: the order of the values is not specified)
ReportSend(t) ==
  /\ pc[t] = "report_send"
  /\ \E c \in clients \ local[t].visited :
       LET msg == UpdateBlock(local[t].key, local[t].block)
       IN IF ~connected[c]
          THEN Panic(t, "send_failed", {}) /\ UNCHANGED <<queue, local>>
          ELSE /\ queue' = [queue EXCEPT ![c] = Append(@, msg)]
               /\ effects' = [effects EXCEPT ![t].sent = Append(@, <<c, msg>>)]
               /\ local' = [local EXCEPT ![t].visited = @ \cup {c}]
               /\ UNCHANGED <<pc, mutex>>
  /\ UNCHANGED <<req, all_blocks, voxels, lod_map, physics, next_id, next_client,
                 clients, connected, players, issued>>
  /\ UNCHANGED <<voxel_vars, block_vars, lib_vars>>

\* the loop ends and the closure returns: the clients guard is dropped
ReportDone(t) ==
  /\ pc[t] = "report_send"
  /\ clients \ local[t].visited = {}
  /\ mutex' = Release(mutex, "clients")
  /\ pc' = [pc EXCEPT ![t] = "brush_next"]
  /\ UNCHANGED <<req, all_blocks, voxels, lod_map, physics, next_id, next_client,
                 clients, queue, connected, players, issued, local, effects>>
  /\ UNCHANGED <<voxel_vars, block_vars, lib_vars>>

(************************** apply_client_update ***************************)

\* ClientToServer::Init: the channel and the client's sender thread are made,
\* a client id is allocated and LeaseId is sent on the new channel
StartInit(t) ==
  /\ next_client <= MaxClients
  /\ Start(t, Request("Init", NoKey, "none", next_client, {}), "init_insert")
  /\ next_client' = next_client + 1
  /\ connected' = [connected EXCEPT ![next_client] = TRUE]
  /\ queue' = [queue EXCEPT ![next_client] =
                 Append(@, Message("LeaseId", NoKey, NoBlock, next_client))]
  /\ UNCHANGED <<mutex, all_blocks, voxels, lod_map, physics, next_id, clients,
                 players>>
  /\ UNCHANGED <<voxel_vars, block_vars, lib_vars>>

\* server.clients.lock().unwrap().insert(client_id, client);
InitInsert(t) ==
  /\ pc[t] = "init_insert"
  /\ Free("clients")
  /\ IF mutex["clients"].poisoned
     THEN Panic(t, "poisoned", {}) /\ UNCHANGED clients
     ELSE /\ clients' = clients \cup {req[t].id}
          /\ pc' = [pc EXCEPT ![t] = "done"]
          /\ UNCHANGED <<mutex, effects>>
  /\ UNCHANGED <<req, all_blocks, voxels, lod_map, physics, next_id, next_client,
                 queue, connected, players, issued, local>>
  /\ UNCHANGED <<voxel_vars, block_vars, lib_vars>>

\* The client's sender thread ends (its socket fails): the receiver is dropped.
ClientThreadDies(c) ==
  /\ c < next_client
  /\ connected[c]
  /\ connected' = [connected EXCEPT ![c] = FALSE]
  /\ UNCHANGED <<pc, req, mutex, all_blocks, voxels, lod_map, physics, next_id,
                 next_client, clients, queue, players, issued, local, effects>>
  /\ UNCHANGED <<voxel_vars, block_vars, lib_vars>>

\* recv as a stack would give it: the newest message of the channel
recv_mut(c) == queue[c][Len(queue[c])]

\* to_client_recv.recv(): the oldest message of the channel that the sender
\* thread has not received yet (a channel is first in, first out)
recv(c) == queue[c][Len(socket[c]) + 1]

\* The client's sender thread, one turn of its loop:
\* while let Some(msg) = to_client_recv.recv().unwrap() {
\*   let msg = serialize::encode(&msg).unwrap(); socket.write(msg.as_ref()); }
ClientThreadWrite(c) ==
  /\ connected[c]
  /\ Len(socket[c]) < Len(queue[c])
  /\ socket' = [socket EXCEPT ![c] = Append(@, recv(c))]
  /\ UNCHANGED not_socket

\* clients.lock().unwrap().get(&client_id).unwrap().sender.send(msg).unwrap()
\* in one statement: the guard is a temporary of it.
SendToClient(t, type, arg) ==
  /\ Free("clients")
  /\ LET id == req[t].id
         msg == Message(type, NoKey, NoBlock, arg)
     IN IF mutex["clients"].poisoned
        THEN Panic(t, "poisoned", {}) /\ UNCHANGED queue
        ELSE IF id \notin clients
        THEN Panic(t, "client_not_found", {"clients"}) /\ UNCHANGED queue
        ELSE IF ~connected[id]
        THEN Panic(t, "send_failed", {"clients"}) /\ UNCHANGED queue
        ELSE /\ queue' = [queue EXCEPT ![id] = Append(@, msg)]
             /\ effects' = [effects EXCEPT ![t].sent = Append(@, <<id, msg>>)]
             /\ pc' = [pc EXCEPT ![t] = "done"]
             /\ UNCHANGED mutex

\* ClientToServer::Ping(client_id)
StartPing(t) ==
  /\ \E c \in ClientIds : Start(t, Request("Ping", NoKey, "none", c, {}), "ping")
  /\ UNCHANGED <<mutex, all_blocks, voxels, lod_map, physics, next_id, next_client,
                 clients, queue, connected, players>>
  /\ UNCHANGED <<voxel_vars, block_vars, lib_vars>>

Ping(t) ==
  /\ pc[t] = "ping"
  /\ SendToClient(t, "Ping", 0)
  /\ UNCHANGED <<req, all_blocks, voxels, lod_map, physics, next_id, next_client,
                 clients, connected, players, issued, local>>
  /\ UNCHANGED <<voxel_vars, block_vars, lib_vars>>

\* ClientToServer::AddPlayer(client_id)
StartAddPlayer(t) ==
  /\ \E c \in ClientIds :
       Start(t, Request("AddPlayer", NoKey, "none", c, {}), "add_player")
  /\ UNCHANGED <<mutex, all_blocks, voxels, lod_map, physics, next_id, next_client,
                 clients, queue, connected, players>>
  /\ UNCHANGED <<voxel_vars, block_vars, lib_vars>>

\* Player::new(id_allocator.allocate(), ..); physics.insert_misc(..);
\* server.players.lock().unwrap().insert(id, player);
AddPlayerInsert(t) ==
  /\ pc[t] = "add_player"
  /\ Free("players")
  /\ next_id' = next_id + 1
  /\ physics' = physics \cup {next_id}
  /\ local' = [local EXCEPT ![t].block = [NoBlock EXCEPT !.id = next_id]]
  /\ IF mutex["players"].poisoned
     THEN Panic(t, "poisoned", {}) /\ UNCHANGED players
     ELSE /\ players' = players \cup {next_id}
          /\ pc' = [pc EXCEPT ![t] = "add_player_notify"]
          /\ UNCHANGED <<mutex, effects>>
  /\ UNCHANGED <<req, all_blocks, voxels, lod_map, next_client, clients, queue,
                 connected, issued>>
  /\ UNCHANGED <<voxel_vars, block_vars, lib_vars>>

\* let clients = server.clients.lock().unwrap();
\* clients.get(&client_id).unwrap().sender.send(Some(PlayerAdded(..))).unwrap();
AddPlayerNotify(t) ==
  /\ pc[t] = "add_player_notify"
  /\ SendToClient(t, "PlayerAdded", local[t].block.id)
  /\ UNCHANGED <<req, all_blocks, voxels, lod_map, physics, next_id, next_client,
                 clients, connected, players, issued, local>>
  /\ UNCHANGED <<voxel_vars, block_vars, lib_vars>>

\* ClientToServer::Add(player_id): cast, then AddTree
StartAdd(t) ==
  /\ \E p \in players \cup {0} :
       Start(t, Request("Add", NoKey, "none", p, {}), "cast_players")
  /\ UNCHANGED <<mutex, all_blocks, voxels, lod_map, physics, next_id, next_client,
                 clients, queue, connected, players>>
  /\ UNCHANGED <<voxel_vars, block_vars, lib_vars>>

\* ClientToServer::Remove(player_id): cast, then RemoveSphere
StartRemove(t) ==
  /\ \E p \in players \cup {0} :
       Start(t, Request("Remove", NoKey, "none", p, {}), "cast_players")
  /\ UNCHANGED <<mutex, all_blocks, voxels, lod_map, physics, next_id, next_client,
                 clients, queue, connected, players>>
  /\ UNCHANGED <<voxel_vars, block_vars, lib_vars>>

\* cast: { let players = server.players.lock().unwrap();
\*         let player = players.get(&player_id).unwrap(); ray = ..; }
CastPlayers(t) ==
  /\ pc[t] = "cast_players"
  /\ Free("players")
  /\ IF mutex["players"].poisoned
     THEN Panic(t, "poisoned", {})
     ELSE IF req[t].id \notin players
     THEN Panic(t, "player_not_found", {"players"})
     ELSE /\ pc' = [pc EXCEPT ![t] = "cast_lock"]
          /\ UNCHANGED <<mutex, effects>>
  /\ UNCHANGED <<req, all_blocks, voxels, lod_map, physics, next_id, next_client,
                 clients, queue, connected, players, issued, local>>
  /\ UNCHANGED <<voxel_vars, block_vars, lib_vars>>

\* CastLock without waiting for the Mutex to be free
CastLock_mut(t) ==
  /\ pc[t] = "cast_lock"
  /\ IF mutex["terrain_loader"].poisoned
     THEN Panic(t, "poisoned", {})
     ELSE /\ mutex' = Acquire(mutex, "terrain_loader", t)
          /\ pc' = [pc EXCEPT ![t] = "cast_ray"]
          /\ UNCHANGED effects
  /\ UNCHANGED <<req, all_blocks, voxels, lod_map, physics, next_id, next_client,
                 clients, queue, connected, players, issued, local>>
  /\ UNCHANGED <<voxel_vars, block_vars, lib_vars>>

\* cast: let terrain_loader = server.terrain_loader.lock().unwrap();
CastLock(t) ==
  /\ pc[t] = "cast_lock"
  /\ Free("terrain_loader")
  /\ IF mutex["terrain_loader"].poisoned
     THEN Panic(t, "poisoned", {})
     ELSE /\ mutex' = Acquire(mutex, "terrain_loader", t)
          /\ pc' = [pc EXCEPT ![t] = "cast_ray"]
          /\ UNCHANGED effects
  /\ UNCHANGED <<req, all_blocks, voxels, lod_map, physics, next_id, next_client,
                 clients, queue, connected, players, issued, local>>
  /\ UNCHANGED <<voxel_vars, block_vars, lib_vars>>

\* What follows cast: on None the handler is done; on Some(bounds) Remove
\* builds its brush and calls update_gaia with it, and Add goes on to the rng.
after_cast(t) ==
  \/ /\ pc' = [pc EXCEPT ![t] = "done"]
     /\ UNCHANGED req
  \/ /\ voxels.sampled # {}
     /\ req[t].op = "Remove"
     /\ \E S \in SUBSET Keys :
          req' = [req EXCEPT ![t] = Request("RemoveSphere", NoKey, "none", 0, S)]
     /\ pc' = [pc EXCEPT ![t] = "brush_lock"]
  \/ /\ voxels.sampled # {}
     /\ req[t].op = "Add"
     /\ pc' = [pc EXCEPT ![t] = "rng_lock"]
     /\ UNCHANGED req

\* CastRay with the terrain_loader guard outliving cast
CastRay_mut(t) ==
  /\ pc[t] = "cast_ray"
  /\ after_cast(t)
  /\ UNCHANGED <<mutex, all_blocks, voxels, lod_map, physics, next_id, next_client,
                 clients, queue, connected, players, issued, local, effects>>
  /\ UNCHANGED <<voxel_vars, block_vars, lib_vars>>

\* cast: terrain_loader.terrain.voxels.cast_ray(&ray, ..) through the shared
\* borrow of the guard; the guard is dropped when cast returns.
CastRay(t) ==
  /\ pc[t] = "cast_ray"
  /\ mutex' = Release(mutex, "terrain_loader")
  /\ after_cast(t)
  /\ UNCHANGED <<all_blocks, voxels, lod_map, physics, next_id, next_client,
                 clients, queue, connected, players, issued, local, effects>>
  /\ UNCHANGED <<voxel_vars, block_vars, lib_vars>>

\* Add, in bounds.map: let mut rng = server.rng.lock().unwrap(); the radii and
\* the height are sampled, the brush is built and update_gaia is called with
\* it while the rng guard is still held.
RngLock(t) ==
  /\ pc[t] = "rng_lock"
  /\ Free("rng")
  /\ IF mutex["rng"].poisoned
     THEN Panic(t, "poisoned", {}) /\ UNCHANGED req
     ELSE /\ mutex' = Acquire(mutex, "rng", t)
          /\ \E S \in SUBSET Keys :
               req' = [req EXCEPT ![t] = Request("AddTree", NoKey, "none", 0, S)]
          /\ pc' = [pc EXCEPT ![t] = "brush_lock"]
          /\ UNCHANGED effects
  /\ UNCHANGED <<all_blocks, voxels, lod_map, physics, next_id, next_client,
                 clients, queue, connected, players, issued, local>>
  /\ UNCHANGED <<voxel_vars, block_vars, lib_vars>>

Next ==
  \/ \E t \in Threads : StartLoad(t)
  \/ \E t \in Threads : LoadLock(t)
  \/ \E t \in Threads : TerrainLoadCached(t)
  \/ \E t \in Threads : TerrainLoadMiss(t)
  \/ \E t \in Threads : TerrainLoadGenerate(t)
  \/ \E t \in Threads : LoadInsertBlock(t)
  \/ \E t \in Threads : LoadClientsLock(t)
  \/ \E t \in Threads : LoadSend(t)
  \/ \E t \in Threads : StartAddTree(t)
  \/ \E t \in Threads : StartRemoveSphere(t)
  \/ \E t \in Threads : BrushLock(t)
  \/ \E t \in Threads : TerrainBrush(t)
  \/ \E t \in Threads : TerrainBrushBlock(t)
  \/ \E t \in Threads : BrushDone(t)
  \/ \E t \in Threads : ReportLock(t)
  \/ \E t \in Threads : ReportSend(t)
  \/ \E t \in Threads : ReportDone(t)
  \/ \E t \in Threads : StartInit(t)
  \/ \E t \in Threads : InitInsert(t)
  \/ \E c \in ClientIds : ClientThreadDies(c)
  \/ \E c \in ClientIds : ClientThreadWrite(c)
  \/ \E t \in Threads : StartPing(t)
  \/ \E t \in Threads : Ping(t)
  \/ \E t \in Threads : StartAddPlayer(t)
  \/ \E t \in Threads : AddPlayerInsert(t)
  \/ \E t \in Threads : AddPlayerNotify(t)
  \/ \E t \in Threads : StartAdd(t)
  \/ \E t \in Threads : StartRemove(t)
  \/ \E t \in Threads : CastPlayers(t)
  \/ \E t \in Threads : CastLock(t)
  \/ \E t \in Threads : CastRay(t)
  \/ \E t \in Threads : RngLock(t)

\* Every assignment of inside/outside to the 8 corners.
(***************************************************************************)
(* generate_block                                                          *)
(***************************************************************************)

\* pub const BLOCK_WIDTH: i32 = 8;
BLOCK_WIDTH == 8

\* pub const LOD_QUALITY: [u16; 4] = [8, 4, 2, 1];  (indexed from 1 here)
LOD_QUALITY == <<8, 4, 2, 1>>

\* Bounds of the model: the block positions are (0..MaxBlockX, 0, 0), at most
\* MaxCalls calls of generate_block are made, and where the heightmap, the
\* position and the level of detail are all free the levels tried are those
\* of at most MaxSamples lateral samples.
MaxBlockX == 1
MaxCalls == 2
MaxSamples == 4

LODIndex == 0 .. (Len(LOD_QUALITY) - 1)
BlockPositions == {<<px, 0, 0>> : px \in 0 .. MaxBlockX}

\* The heightmaps tried: height_at(x, z) = base + dx * x + dz * z.
HeightMaps ==
  { [base |-> 4, dx |-> 0, dz |-> 0],
    [base |-> 0, dx |-> 1, dz |-> 0],
    [base |-> 2, dx |-> 0, dz |-> 1] }

height_at(h, x, z) == h.base + h.dx * x + h.dz * z

\* field_contains with > for >=
field_contains_mut(h, x, y, z) == height_at(h, x, z) > y

\* let mut field_contains = |x, y, z| heightmap.height_at(x, z) >= y
field_contains(h, x, y, z) == height_at(h, x, z) >= y

\* Coordinates of vertices are kept in units of 1/1024: the vertices are
\* multiples of 1/256 and the centre of a quad is a sum of four of them over
\* 4, so every f32 the code computes is one of these, exactly.
Unit == 1024

\* let lateral_samples = LOD_QUALITY[lod_index.0 as usize] as i32;
lateral_samples(lod_index) == LOD_QUALITY[lod_index + 1]

\* let voxel_size = BLOCK_WIDTH / lateral_samples;
voxel_size(lod_index) == BLOCK_WIDTH \div lateral_samples(lod_index)

\* Int::trailing_zeros of a positive number
trailing_zeros(v) == CHOOSE k \in 0 .. 31 : v % (2 ^ (k + 1)) = 2 ^ k

\* let lg_size = Int::trailing_zeros(voxel_size);
lg_size(lod_index) == trailing_zeros(voxel_size(lod_index))

\* x << lg_size
Shl(v, k) == v * (2 ^ k)

\* position.to_world_position(), then `as i32`
to_world_position(position) ==
  <<position[1] * BLOCK_WIDTH, position[2] * BLOCK_WIDTH, position[3] * BLOCK_WIDTH>>

add_v(p, d) == <<p[1] + d[1], p[2] + d[2], p[3] + d[3]>>

\* VoxelBounds::new(x, y, z, lg_size)
VoxelBounds(w, lg) == <<w[1], w[2], w[3], lg>>

\* The corners generate_voxel samples for a voxel: corners[x][y][z], at
\* x1 = voxel.x, x2 = voxel.x + d, d = 1 << lg_size.
corners_of(h, b) ==
  LET d == Shl(1, b[4])
  IN [x \in Bit |-> [y \in Bit |-> [z \in Bit |->
        field_contains(h, b[1] + x * d, b[2] + y * d, b[3] + z * d)]]]

\* The octree.  voxel_tree maps the bounds of every slot that holds a Leaf
\* or a Branch to it; the other slots are Empty.
Branch == [tag |-> "branch"]
Leaf(v) == [tag |-> "leaf", voxel |-> v]
Empty == [tag |-> "empty"]

\* The coarsest voxel any level of detail addresses.
MaxLg == lg_size(Len(LOD_QUALITY) - 1)

\* The origin of the cube of side 2^lg that holds coordinate v.
AlignDown(v, lg) == v - (v % (2 ^ lg))

\* The slots on the way down to b: the cubes above it.
Ancestors(b) ==
  { <<AlignDown(b[1], k), AlignDown(b[2], k), AlignDown(b[3], k), k>> :
      k \in (b[4] + 1) .. MaxLg }

\* c is a slot strictly below b.
Below(c, b) ==
  /\ c[4] < b[4]
  /\ \A a \in 1 .. 3 : b[a] <= c[a] /\ c[a] < b[a] + 2 ^ b[4]

TreeBody(tree, b) == IF b \in DOMAIN tree THEN tree[b] ELSE Empty

\* voxels.get_mut(bounds): every slot on the way down becomes a Branch, if it
\* is not one; the slot itself is left as it is.
get_mut(tree, b) ==
  IF \A a \in Ancestors(b) : TreeBody(tree, a) = Branch
  THEN tree
  ELSE [a \in DOMAIN tree \union Ancestors(b) |->
          IF a \in Ancestors(b) THEN Branch ELSE tree[a]]

\* *branch = Leaf(..) storing a voxel other than the one handed back
set_leaf_mut(tree, b, v) ==
  [a \in {c \in DOMAIN tree : ~Below(c, b)} \union {b} |->
     IF a = b THEN Leaf([v EXCEPT !.vertex = <<0, 0, 0>>]) ELSE tree[a]]

\* *branch = voxel_tree::TreeBody::Leaf(v): what hung below the slot is dropped
set_leaf(tree, b, v) ==
  [a \in {c \in DOMAIN tree : ~Below(c, b)} \union {b} |->
     IF a = b THEN Leaf(v) ELSE tree[a]]

\* The Leaf arm treated as the other two: every access calls generate_voxel
samples_mut(tag) == TRUE

\* The arms of get_voxel! that call generate_voxel: Empty and Branch
samples(tag) == tag # "leaf"

\* The Branch arm without its assignment: only an Empty slot is written
writes_leaf_mut(tag, v) == tag = "empty" /\ v # None

\* generate_voxel(..).map(|v| { *branch = Leaf(v); v }): the slot is written
\* when the arm samples and the sample is Some
writes_leaf(tag, v) == samples(tag) /\ v # None

\* get_voxel!: the tree afterwards, the Option<Voxel> it yields, and what
\* the access found and did.
get_voxel(tree, h, b) ==
  LET t == get_mut(tree, b)
      branch == TreeBody(t, b)
      v == generate_voxel(corners_of(h, b))
      after == IF samples(branch.tag) /\ writes_leaf(branch.tag, v)
               THEN set_leaf(t, b, v) ELSE t
  IN [tree |-> after,
      voxel |-> IF samples(branch.tag) THEN v ELSE branch.voxel,
      access |-> [bounds |-> b,
                  found |-> branch.tag,
                  sampled |-> samples(branch.tag),
                  left |-> TreeBody(after, b).tag,
                  dropped |-> IF branch.tag = "branch"
                              THEN (DOMAIN t) \ (DOMAIN after) ELSE {},
                  below |-> IF branch.tag = "branch"
                            THEN \E c \in DOMAIN after : Below(c, b)
                            ELSE FALSE]]

\* to_world_vertex: ((numerator << lg_size) as f32 / 256.0) + voxel_position
to_world_vertex(vertex, voxel_position, lg) ==
  [a \in 1 .. 3 |->
     voxel_position[a] * Unit + (Shl(vertex[a], lg) * Unit) \div 256]

Min3(a, b, c) ==
  LET m == IF a <= b THEN a ELSE b IN IF m <= c THEN m ELSE c

Max3(a, b, c) ==
  LET m == IF a >= b THEN a ELSE b IN IF m >= c THEN m ELSE c

\* Aabb3::new with the corner of the minima from the first two vertices only
Aabb3_mut(v1, v2, center) ==
  [min |-> <<Min3(v1[1], v2[1], v2[1]), Min3(v1[2], v2[2], v2[2]) - Unit,
             Min3(v1[3], v2[3], v2[3])>>,
   max |-> <<Max3(v1[1], v2[1], center[1]), Max3(v1[2], v2[2], center[2]),
             Max3(v1[3], v2[3], center[3])>>]

\* Aabb3::new(Point3::new(minx, miny - 1.0, minz), Point3::new(maxx, maxy, maxz))
Aabb3(v1, v2, center) ==
  [min |-> <<Min3(v1[1], v2[1], center[1]), Min3(v1[2], v2[2], center[2]) - Unit,
             Min3(v1[3], v2[3], center[3])>>,
   max |-> <<Max3(v1[1], v2[1], center[1]), Max3(v1[2], v2[2], center[2]),
             Max3(v1[3], v2[3], center[3])>>]

\* tri(v1, v2, v3)
tri(v1, v2, v3) == <<v1, v2, v3>>

\* let norm = Vector3::new(0.0, 1.0, 0.0);
norm == <<0, 1, 0>>

\* TerrainBlock::empty()
TerrainBlock_empty ==
  [vertex_coordinates |-> <<>>, normals |-> <<>>, coords |-> <<>>,
   ids |-> <<>>, bounds |-> <<>>, pixels |-> <<>>]

\* id_allocator.lock().unwrap().allocate(): the id given, with the allocator
\* one further on
allocate(next) == [id |-> next, next |-> next + 1]

\* add_poly without the call of allocate: the id is read, not taken
add_poly_mut(s, p) ==
  LET id == s.next
  IN [next |-> s.next,
      block |->
        [s.block EXCEPT
           !.vertex_coordinates = Append(@, tri(p[1], p[2], p[3])),
           !.normals = Append(@, tri(norm, norm, norm)),
           !.ids = Append(@, id),
           !.bounds = Append(@, <<id, Aabb3(p[1], p[2], p[3])>>)]]

\* add_poly(v1, v2, center), with p = <<v1, v2, center>>, on the pair s of
\* the allocator and the block
add_poly(s, p) ==
  LET a == allocate(s.next)
  IN [next |-> a.next,
      block |->
        [s.block EXCEPT
           !.vertex_coordinates = Append(@, tri(p[1], p[2], p[3])),
           !.normals = Append(@, tri(norm, norm, norm)),
           !.ids = Append(@, a.id),
           !.bounds = Append(@, <<a.id, Aabb3(p[1], p[2], p[3])>>)]]

\* The four add_poly calls of one quad, in the order the facing flag picks.
quad_polys(facing, v1, v2, v3, v4, center) ==
  IF facing
  THEN << <<v1, v4, center>>, <<v4, v3, center>>, <<v3, v2, center>>, <<v2, v1, center>> >>
  ELSE << <<v1, v2, center>>, <<v2, v3, center>>, <<v3, v4, center>>, <<v4, v1, center>> >>

\* v1.add_v(&v2.to_vec()).add_v(&v3.to_vec()).add_v(&v4.to_vec()).div_s(4.0)
quad_center(v1, v2, v3, v4) ==
  [a \in 1 .. 3 |-> (v1[a] + v2[a] + v3[a] + v4[a]) \div 4]

\* $d1 of the x_edges use pointing along the edge instead of across it
extract_d1_mut(axis, size) ==
  CASE axis = 1 -> <<-size, 0, 0>>
    [] axis = 2 -> <<0, 0, -size>>
    [] axis = 3 -> <<0, -size, 0>>

\* The three uses of extract!: $d1 and $d2 for x_edges, y_edges, z_edges.
extract_d1(axis, size) ==
  CASE axis = 1 -> <<0, -size, 0>>
    [] axis = 2 -> <<0, 0, -size>>
    [] axis = 3 -> <<0, -size, 0>>

extract_d2(axis, size) ==
  CASE axis = 1 -> <<0, 0, -size>>
    [] axis = 2 -> <<-size, 0, 0>>
    [] axis = 3 -> <<-size, 0, 0>>

\* voxel.edge_crosses.$edges[0][0]
crosses_surface(v, axis) ==
  CASE axis = 1 -> v.edge_crosses.x_edges[0][0]
    [] axis = 2 -> v.edge_crosses.y_edges[0][0]
    [] axis = 3 -> v.edge_crosses.z_edges[0][0]

\* The loops run to lateral_samples inclusive.
next_cursor_mut(c, n) ==
  IF c[4] < n THEN <<c[1], c[2], c[3], c[4] + 1>>
  ELSE IF c[3] < n THEN <<c[1], c[2], c[3] + 1, 0>>
  ELSE IF c[2] < n THEN <<c[1], c[2] + 1, 0, 0>>
  ELSE <<c[1] + 1, 0, 0, 0>>

\* for x in 0..lateral_samples { for y .. { for z .. : the position after
\* <<axis, x, y, z>>; axis 4 is the end of the third extract!.
next_cursor(c, n) ==
  IF c[4] + 1 < n THEN <<c[1], c[2], c[3], c[4] + 1>>
  ELSE IF c[3] + 1 < n THEN <<c[1], c[2], c[3] + 1, 0>>
  ELSE IF c[2] + 1 < n THEN <<c[1], c[2] + 1, 0, 0>>
  ELSE <<c[1] + 1, 0, 0, 0>>

Idle == [pc |-> "idle"]

\* let w = iposition.add_v(&Vector3::new(x << lg_size, y << lg_size, z << lg_size));
extract_w ==
  LET lg == lg_size(call.lod_index)
  IN add_v(to_world_position(call.position),
           <<Shl(call.cursor[2], lg), Shl(call.cursor[3], lg), Shl(call.cursor[4], lg)>>)

\* match get_voxel!(w)
extract_voxel ==
  get_voxel(voxel_tree, heightmap, VoxelBounds(extract_w, lg_size(call.lod_index)))

\* The voxel the k-th get_vertex! of a pass looks up: v1 at w + d1 + d2, v2
\* at w + d1, v4 at w + d2 (v3 is the voxel of w itself).
extract_neighbour(k) ==
  LET size == voxel_size(call.lod_index)
      d1 == extract_d1(call.cursor[1], size)
      d2 == extract_d2(call.cursor[1], size)
  IN CASE k = 1 -> add_v(add_v(extract_w, d1), d2)
       [] k = 2 -> add_v(extract_w, d1)
       [] k = 3 -> add_v(extract_w, d2)

\* IdAllocator::new()
IdAllocator_new == 0

\* The asserts at the head of generate_block.
asserts_hold(lod_index) ==
  /\ lateral_samples(lod_index) <= BLOCK_WIDTH
  /\ BLOCK_WIDTH % lateral_samples(lod_index) = 0
  /\ Shl(1, lg_size(lod_index)) = voxel_size(lod_index)
  /\ lg_size(lod_index) < 31

\* generate_block is called: with the allocator as it stands, or (fresh) with
\* a new one.
GenerateBlock(position, lod_index, fresh) ==
  /\ call.pc = "idle"
  /\ Len(returned) < MaxCalls
  /\ fresh => id_allocator # IdAllocator_new
  /\ id_allocator' = IF fresh THEN IdAllocator_new ELSE id_allocator
  /\ call' = [pc |-> IF asserts_hold(lod_index) THEN "extract" ELSE "panicked",
              position |-> position, lod_index |-> lod_index,
              cursor |-> <<1, 0, 0, 0>>, first_id |-> id_allocator',
              voxel |-> None, nv |-> <<>>]
  /\ terrain_block' = TerrainBlock_empty
  /\ quads' = <<>>
  /\ accesses' = <<>>
  /\ UNCHANGED <<heightmap, voxel_tree, returned, voxel_vars, server_vars, lib_vars>>

\* One pass of the loop body of extract! that ends in `continue`: the voxel
\* is None, or its edge does not cross the surface.
ExtractContinue ==
  /\ call.pc = "extract"
  /\ call.cursor[1] <= 3
  /\ LET r == extract_voxel
     IN /\ IF r.voxel = None THEN TRUE
           ELSE ~crosses_surface(r.voxel, call.cursor[1])
        /\ voxel_tree' = r.tree
        /\ accesses' = <<r.access>>
  /\ call' = [call EXCEPT
                !.cursor = next_cursor(@, lateral_samples(call.lod_index))]
  /\ UNCHANGED <<heightmap, id_allocator, terrain_block, quads, returned,
                 voxel_vars, server_vars, lib_vars>>

\* The head of a pass of the loop body of extract! for an edge that crosses:
\* the voxel of w is kept, and the three get_vertex! follow.
ExtractCrossing ==
  /\ call.pc = "extract"
  /\ call.cursor[1] <= 3
  /\ LET r == extract_voxel
     IN /\ r.voxel # None
        /\ crosses_surface(r.voxel, call.cursor[1])
        /\ voxel_tree' = r.tree
        /\ accesses' = <<r.access>>
        /\ call' = [call EXCEPT !.pc = "get_vertex", !.voxel = r.voxel, !.nv = <<>>]
  /\ UNCHANGED <<heightmap, id_allocator, terrain_block, quads, returned,
                 voxel_vars, server_vars, lib_vars>>

\* get_vertex!($w): to_world_vertex(get_voxel!($w).unwrap().vertex, $w), for
\* v1, v2 and v4 in turn; the unwrap panics on None.
GetVertex ==
  /\ call.pc = "get_vertex"
  /\ LET k == Len(call.nv) + 1
         lg == lg_size(call.lod_index)
         r == get_voxel(voxel_tree, heightmap, VoxelBounds(extract_neighbour(k), lg))
     IN /\ voxel_tree' = r.tree
        /\ accesses' = Append(accesses, r.access)
        /\ call' = IF r.voxel = None
                   THEN [call EXCEPT !.pc = "panicked"]
                   ELSE [call EXCEPT
                           !.pc = IF k = 3 THEN "add_poly" ELSE "get_vertex",
                           !.nv = Append(@, to_world_vertex(r.voxel.vertex,
                                                            extract_neighbour(k), lg))]
  /\ UNCHANGED <<heightmap, id_allocator, terrain_block, quads, returned,
                 voxel_vars, server_vars, lib_vars>>

\* The end of the pass: v3, the centre, and the four add_poly of the quad.
ExtractQuad ==
  /\ call.pc = "add_poly"
  /\ LET v3 == to_world_vertex(call.voxel.vertex, extract_w, lg_size(call.lod_index))
         polys == quad_polys(call.voxel.facing[call.cursor[1]],
                             call.nv[1], call.nv[2], v3, call.nv[3],
                             quad_center(call.nv[1], call.nv[2], v3, call.nv[3]))
         s4 == add_poly(add_poly(add_poly(add_poly(
                 [next |-> id_allocator, block |-> terrain_block],
                 polys[1]), polys[2]), polys[3]), polys[4])
     IN /\ id_allocator' = s4.next
        /\ terrain_block' = s4.block
  /\ quads' = Append(quads, call.cursor)
  /\ call' = [call EXCEPT
                !.pc = "extract", !.voxel = None, !.nv = <<>>,
                !.cursor = next_cursor(@, lateral_samples(call.lod_index))]
  /\ UNCHANGED <<heightmap, voxel_tree, accesses, returned, voxel_vars, server_vars, lib_vars>>

\* The third extract! is over: generate_block returns the block.
GenerateBlockReturn ==
  /\ call.pc = "extract"
  /\ call.cursor[1] = 4
  /\ returned' = Append(returned,
                        [position |-> call.position, lod_index |-> call.lod_index,
                         first_id |-> call.first_id, block |-> terrain_block,
                         quads |-> quads])
  /\ call' = Idle
  /\ terrain_block' = TerrainBlock_empty
  /\ quads' = <<>>
  /\ accesses' = <<>>
  /\ UNCHANGED <<heightmap, voxel_tree, id_allocator, voxel_vars, server_vars, lib_vars>>

\* generate_block not running: no heightmap chosen yet matters, the octree
\* is empty and the allocator is new.
BlockInit ==
  /\ voxel_tree = <<>>
  /\ id_allocator = IdAllocator_new
  /\ call = Idle
  /\ terrain_block = TerrainBlock_empty
  /\ quads = <<>>
  /\ accesses = <<>>
  /\ returned = <<>>

VoxelIdle ==
  /\ corners = [x \in Bit |-> [y \in Bit |-> [z \in Bit |-> FALSE]]]
  /\ voxel = Pending

\* generate_block called up to MaxCalls times, at any of the block positions
\* and levels of detail, over one heightmap.
InitBlock ==
  /\ heightmap \in HeightMaps
  /\ BlockInit
  /\ LibIdle
  /\ VoxelIdle
  /\ ServerInit

NextBlock ==
  \/ \E position \in BlockPositions, fresh \in BOOLEAN,
        lod_index \in {l \in LODIndex : lateral_samples(l) <= MaxSamples} :
       GenerateBlock(position, lod_index, fresh)
  \/ ExtractContinue
  \/ ExtractCrossing
  \/ GetVertex
  \/ ExtractQuad
  \/ GenerateBlockReturn

SpecBlock == InitBlock /\ [][NextBlock]_vars

\* The example of the specification: the field "solid iff y < 5" (on the
\* lattice: height 4 everywhere), the block at the origin, LOD 0.
FlatHeightMap == [base |-> 4, dx |-> 0, dz |-> 0]

InitFlat ==
  /\ heightmap = FlatHeightMap
  /\ BlockInit
  /\ LibIdle
  /\ VoxelIdle
  /\ ServerInit

NextFlat ==
  \/ \E fresh \in BOOLEAN : GenerateBlock(<<0, 0, 0>>, 0, fresh)
  \/ ExtractContinue
  \/ ExtractCrossing
  \/ GetVertex
  \/ ExtractQuad
  \/ GenerateBlockReturn

SpecFlat == InitFlat /\ [][NextFlat]_vars

Corners == [Bit -> [Bit -> [Bit -> BOOLEAN]]]

InitVoxel ==
  /\ corners \in Corners
  /\ voxel = Pending
  /\ ServerInit
  /\ heightmap = FlatHeightMap
  /\ BlockInit
  /\ LibIdle

GenerateVoxel ==
  /\ voxel = Pending
  /\ voxel' = generate_voxel(corners)
  /\ UNCHANGED <<corners, server_vars, block_vars, lib_vars>>

NextVoxel == GenerateVoxel

SpecVoxel == InitVoxel /\ [][NextVoxel]_vars

\* The server, with the sampler idle.
Init ==
  /\ corners = [x \in Bit |-> [y \in Bit |-> [z \in Bit |-> FALSE]]]
  /\ voxel = Pending
  /\ ServerInit
  /\ heightmap = FlatHeightMap
  /\ BlockInit
  /\ LibIdle

Spec == Init /\ [][Next]_vars

(***************************************************************************)
(* apply_client_update, ClientToServer::Add: the tree brush                *)
(***************************************************************************)

\* f64 values are kept in units of 2^-25. Every value below is such a
\* multiple under 64, so it is an f64 and the products by 2, 4, 6 and 12 and
\* the min and max the handler computes on them are exact.
F64Unit == 2 ^ 25

\* The largest power of two that is at most n (n >= 1).
RECURSIVE pow2_floor(_)
pow2_floor(n) == IF n < 2 THEN 1 ELSE 2 * pow2_floor(n \div 2)

\* The distance between consecutive f32 values around v > 0, in units of
\* 2^-25: an f32 has a 24 bit significand, so it is 2^-23 in [1, 2).
f32_ulp(v) ==
  IF v >= F64Unit THEN 4 * pow2_floor(v \div F64Unit)
  ELSE IF 2 * v >= F64Unit THEN 2
  ELSE 1

\* v as f32: the nearest f32, a tie going to the even significand.
as_f32(v) ==
  LET ulp == f32_ulp(v)
      low == v - (v % ulp)
      rest == v % ulp
  IN  IF 2 * rest < ulp THEN low
      ELSE IF 2 * rest > ulp THEN low + ulp
      ELSE IF (low \div ulp) % 2 = 0 THEN low ELSE low + ulp

f64_min(a, b) == IF a < b THEN a ELSE b

f64_max(a, b) == IF a > b THEN a ELSE b

\* What Normal::ind_sample may return for the trunk radius, the trunk height
\* and the leaf radius: values under, inside and over each range, some of
\* them f32 values and some not.
RadiusSamples ==
  {0, F64Unit, F64Unit + (F64Unit \div 2) + 5, 2 * F64Unit, 2 * F64Unit + 3,
   3 * F64Unit, 5 * F64Unit}

HeightSamples == {0, 6 * F64Unit, 16 * F64Unit + 1, 24 * F64Unit, 40 * F64Unit}

LeafSamples == {0, 3 * F64Unit, 8 * F64Unit + 1, 20 * F64Unit}

NoBrush == [tag |-> "none"]

\* let trunk_radius = f64::max(1.0, f64::min(3.0, trunk_radius));
trunk_radius_of(s) == f64_max(F64Unit, f64_min(3 * F64Unit, s))

\* f64::max(4.0 * trunk_radius, f64::min(12.0 * trunk_radius, trunk_height))
trunk_height_of(r, s) == f64_max(4 * r, f64_min(12 * r, s))

\* f64::max(2.0 * trunk_radius, f64::min(6.0 * trunk_radius, leaf_radius))
leaf_radius_of(r, s) == f64_max(2 * r, f64_min(6 * r, s))

\* voxel::mosaic::tree::T { bottom, trunk_height as f32, trunk_radius as f32,
\* leaf_radius as f32 }
tree_brush(trunk_height, trunk_radius, leaf_radius) ==
  [tag |-> "tree",
   trunk_height |-> as_f32(trunk_height),
   trunk_radius |-> as_f32(trunk_radius),
   leaf_radius |-> as_f32(leaf_radius)]

\* ClientToServer::Add(player_id): cast gives the voxel aimed at, if any, and
\* only then the three parameters are drawn, clamped and sent as AddTree.
Add(hit, s1, s2, s3) ==
  /\ IF hit
     THEN LET trunk_radius == trunk_radius_of(s1)
              trunk_height == trunk_height_of(trunk_radius, s2)
              leaf_radius == leaf_radius_of(trunk_radius, s3)
          IN  /\ rng' = <<s1, s2, s3>>
              /\ brush' = tree_brush(trunk_height, trunk_radius, leaf_radius)
     ELSE /\ rng' = <<>>
          /\ brush' = NoBrush
  /\ UNCHANGED not_add

NextAdd ==
  \E hit \in BOOLEAN, s1 \in RadiusSamples, s2 \in HeightSamples, s3 \in LeafSamples :
    Add(hit, s1, s2, s3)

SpecAdd == Init /\ [][NextAdd]_vars

(***************************************************************************)
(* BlockPosition::from_world_position, to_world_position                   *)
(* (src/src/terrain_block.rs; its BLOCK_WIDTH is 8 as well)                *)
(***************************************************************************)

\* World coordinates are f32 values, kept in units of 1/2. Up to 2^23 every
\* multiple of 1/2 is an f32.
Half == 2

\* a / b on i32: the quotient truncated toward zero.
i32_div(a, b) == IF a >= 0 THEN a \div b ELSE -((-a) \div b)

\* $x.floor() as i32, for a coordinate in halves
floor_as_i32(x) == x \div Half

\* convert_coordinate!($x)
convert_coordinate(x) ==
  LET x1 == floor_as_i32(x)
      x2 == IF x1 < 0 THEN x1 - (BLOCK_WIDTH - 1) ELSE x1
  IN  i32_div(x2, BLOCK_WIDTH)

BlockPosition_from_world_position(p) ==
  <<convert_coordinate(p[1]), convert_coordinate(p[2]), convert_coordinate(p[3])>>

\* n as f32 for an i32 n: the nearest f32 (24 bit significand), a tie going
\* to the even significand. The result is an integer.
i32_as_f32(n) ==
  LET a == IF n < 0 THEN -n ELSE n
      ulp == IF a < 2 ^ 24 THEN 1 ELSE pow2_floor(a) \div (2 ^ 23)
      low == a - (a % ulp)
      rest == a % ulp
      r == IF 2 * rest < ulp THEN low
           ELSE IF 2 * rest > ulp THEN low + ulp
           ELSE IF (low \div ulp) % 2 = 0 THEN low ELSE low + ulp
  IN  IF n < 0 THEN -r ELSE r

\* (self.as_pnt().x * BLOCK_WIDTH) as f32, per axis; in halves
BlockPosition_to_world_position(p) ==
  <<Half * i32_as_f32(p[1] * BLOCK_WIDTH), Half * i32_as_f32(p[2] * BLOCK_WIDTH),
    Half * i32_as_f32(p[3] * BLOCK_WIDTH)>>

\* The world coordinates tried, in halves: both sides of 0 and of the block
\* borders at -16, -8, 8.
WorldCoordinates == {-33, -32, -17, -16, -15, -1, 0, 1, 15, 16, 17}

\* The block coordinates tried: around 0 and around 2^24, where BLOCK_WIDTH
\* times the coordinate stops being an f32.
BlockCoordinates == {-(2 ^ 24) - 1, -2, -1, 0, 1, 2 ^ 24, 2 ^ 24 + 1}

NoPosition == <<>>

\* p.to_world_position()
ToWorldPosition(p) ==
  /\ convert.op = "none"
  /\ block_position' = p
  /\ world_position' = BlockPosition_to_world_position(p)
  /\ convert' = [op |-> "world_of_block", p |-> p]
  /\ UNCHANGED not_position

\* BlockPosition::from_world_position(&w), for a world position w or for
\* the one to_world_position has just returned
FromWorldPosition(w) ==
  /\ convert.op \in {"none", "world_of_block"}
  /\ convert.op = "world_of_block" => w = world_position
  /\ world_position' = w
  /\ block_position' = BlockPosition_from_world_position(w)
  /\ convert' = [convert EXCEPT !.op = IF @ = "none" THEN "mapped" ELSE "round_trip"]
  /\ UNCHANGED not_position

NextPosition ==
  \/ \E p \in BlockCoordinates \X BlockCoordinates \X BlockCoordinates :
       ToWorldPosition(p)
  \/ \E w \in (IF convert.op = "none"
                THEN WorldCoordinates \X WorldCoordinates \X WorldCoordinates
                ELSE {world_position}) :
       FromWorldPosition(w)

SpecPosition == Init /\ [][NextPosition]_vars

(***************************************************************************)
(* glw::queue::Queue (src/src/glw/queue.rs)                                *)
(***************************************************************************)

\* The capacities Queue::new is called with.
MaxCapacity == 4

\* The number of operations applied to one queue.
MaxOps == 7

\* A Vec<T> is its buffer of capacity() cells and its len(); a cell that was
\* never written holds Uninit. The elements pushed are 1, 2, 3, ..
Uninit == 0

\* Vec::with_capacity(capacity)
Vec_with_capacity(capacity) == [buf |-> [i \in 1..capacity |-> Uninit], len |-> 0]

\* v.capacity()
Vec_capacity(v) == Len(v.buf)

\* v.push(t)
Vec_push(v, t) == [buf |-> [v.buf EXCEPT ![v.len + 1] = t], len |-> v.len + 1]

\* *v.get_mut(i) = t
Vec_set(v, i, t) == [v EXCEPT !.buf[i + 1] = t]

\* v.clear()
Vec_clear(v) == [buf |-> [i \in 1..Len(v.buf) |-> Uninit], len |-> 0]

\* v.slice(from, to): fails unless from <= to <= v.len()
Vec_slice(v, from, to) ==
  IF from <= to /\ to <= v.len
  THEN [failed |-> FALSE, elems |-> SubSeq(v.buf, from + 1, to)]
  ELSE [failed |-> TRUE, elems |-> <<>>]

\* memcpy copying the first cell first
RECURSIVE copy_forward(_, _, _, _)
copy_forward(b, to, from, n) ==
  IF n = 0 THEN b
  ELSE copy_forward([b EXCEPT ![to + 1] = b[from + 1]], to + 1, from + 1, n - 1)

\* memcpy copying the last cell first
RECURSIVE copy_backward(_, _, _, _)
copy_backward(b, to, from, n) ==
  IF n = 0 THEN b
  ELSE copy_backward([b EXCEPT ![to + n] = b[from + n]], to, from, n - 1)

\* vec_copy(&mut v, to, from, n): memcpy of n cells inside the buffer. The
\* order of the copy shows only when the two ranges overlap, which memcpy
\* leaves open.
vec_copy(v, to, from, n, dir) ==
  [v EXCEPT !.buf = IF dir = "forward" THEN copy_forward(@, to, from, n)
                    ELSE copy_backward(@, to, from, n)]

NoQueue == [tag |-> "none"]

\* Queue::new(capacity)
Queue_new(capacity) ==
  [contents |-> Vec_with_capacity(capacity), head |-> 0, tail |-> 0, length |-> 0]

\* An operation ran to its end, or stopped where an assertion failed.
Done(s) == [failed |-> FALSE, q |-> s]

Failed(s) == [failed |-> TRUE, q |-> s]

\* self.push(t)
push(self, t) ==
  IF ~(self.length < Vec_capacity(self.contents)) THEN Failed(self)
  ELSE LET c == IF self.contents.len < Vec_capacity(self.contents)
                THEN Vec_push(self.contents, t)
                ELSE Vec_set(self.contents, self.tail, t)
       IN  Done([self EXCEPT !.contents = c,
                             !.tail = (self.tail + 1) % Vec_capacity(self.contents),
                             !.length = self.length + 1])

pop_mut(self, count) ==
  Done([self EXCEPT !.head = (self.head + count) % Vec_capacity(self.contents),
                    !.length = IF count <= self.length THEN self.length - count ELSE 0])

\* self.pop(count)
pop(self, count) ==
  IF ~(count <= self.length) THEN Failed(self)
  ELSE Done([self EXCEPT !.head = (self.head + count) % Vec_capacity(self.contents),
                         !.length = self.length - count])

\* self.swap_remove(idx, count)
swap_remove(self, idx, count, dir) ==
  IF ~(count <= self.length) THEN Failed(self)
  ELSE
    LET capacity == Vec_capacity(self.contents)
        s1 == [self EXCEPT !.length = self.length - count]
    IN
    IF ~(idx <= s1.length) THEN Failed(s1)
    ELSE
      LET s2 == [s1 EXCEPT !.tail = (self.tail + capacity - count) % capacity]
          buffer_wrap_point == capacity - count
      IN
      IF ~(idx < s2.length) THEN Done(s2)
      ELSE IF ~(idx + count <= s2.length) THEN Failed(s2)
      ELSE IF idx > buffer_wrap_point
      THEN LET count1 == capacity - idx
               count2 == count - count1
               c1 == vec_copy(s2.contents, idx, s2.tail, count1, dir)
           IN  Done([s2 EXCEPT !.contents = vec_copy(c1, 0, s2.tail + count1, count2, dir)])
      ELSE IF s2.tail > buffer_wrap_point
      THEN LET count1 == capacity - s2.tail
               count2 == count - count1
               c1 == vec_copy(s2.contents, idx, s2.tail, count1, dir)
           IN  Done([s2 EXCEPT !.contents = vec_copy(c1, idx + count1, 0, count2, dir)])
      ELSE Done([s2 EXCEPT !.contents = vec_copy(s2.contents, idx, s2.tail, count, dir)])

\* self.clear()
clear(self) ==
  Done([contents |-> Vec_clear(self.contents), head |-> 0, tail |-> 0, length |-> 0])

\* self.slices(low, high): the two slices, or failed when an assertion or a
\* bound check of slice fails
slices(self, low, high) ==
  IF ~(low <= self.length) \/ ~(high <= self.length)
  THEN [failed |-> TRUE, l |-> <<>>, h |-> <<>>]
  ELSE
    LET capacity == Vec_capacity(self.contents)
        head == (self.head + low) % capacity
        tail == (self.head + high) % capacity
        l == IF head <= tail THEN Vec_slice(self.contents, head, tail)
             ELSE Vec_slice(self.contents, head, capacity)
        h == IF head <= tail THEN Vec_slice(self.contents, tail, tail)
             ELSE Vec_slice(self.contents, 0, tail)
    IN  [failed |-> l.failed \/ h.failed, l |-> l.elems, h |-> h.elems]

\* What the documentation of swap_remove says of the elements: those at idx ..
\* idx + count are replaced by the last count, in order, and the last count
\* are dropped.
swap_removed(es, idx, count) ==
  [i \in 1..(Len(es) - count) |->
     IF idx < i /\ i <= idx + count THEN es[Len(es) - count + (i - idx)] ELSE es[i]]

NoOp == [op |-> "none", args |-> <<>>, before |-> NoQueue, used |-> {}, failed |-> FALSE]

\* Queue::new(capacity)
QueueNew(capacity) ==
  /\ Queue = NoQueue
  /\ Queue' = Queue_new(capacity)
  /\ elems' = <<>>
  /\ ops' = [n |-> 0, pushed |-> 0, used |-> {}]
  /\ last' = [op |-> "new", args |-> <<capacity>>, before |-> Queue, used |-> {},
              failed |-> FALSE]
  /\ UNCHANGED not_queue

\* An operation can be applied: the queue exists, no assertion has failed on
\* it, and fewer than MaxOps operations were applied.
CanApply ==
  /\ Queue # NoQueue
  /\ ~last.failed
  /\ ops.n < MaxOps

\* q.push(t); the elements pushed are 1, 2, 3, .. in this order
Push(t) ==
  /\ CanApply
  /\ t = ops.pushed + 1
  /\ LET r == push(Queue, t)
     IN  /\ Queue' = r.q
         /\ elems' = IF r.failed THEN elems ELSE Append(elems, t)
         /\ last' = [op |-> "push", args |-> <<t>>, before |-> Queue,
                     used |-> ops.used, failed |-> r.failed]
  /\ ops' = [n |-> ops.n + 1, pushed |-> ops.pushed + 1, used |-> ops.used \cup {"push"}]
  /\ UNCHANGED not_queue

\* q.pop(count)
Pop(count) ==
  /\ CanApply
  /\ LET r == pop(Queue, count)
     IN  /\ Queue' = r.q
         /\ elems' = IF r.failed THEN elems ELSE SubSeq(elems, count + 1, Len(elems))
         /\ last' = [op |-> "pop", args |-> <<count>>, before |-> Queue,
                     used |-> ops.used, failed |-> r.failed]
  /\ ops' = [ops EXCEPT !.n = @ + 1, !.used = @ \cup {"pop"}]
  /\ UNCHANGED not_queue

\* q.swap_remove(idx, count)
SwapRemove(idx, count, dir) ==
  /\ CanApply
  /\ LET r == swap_remove(Queue, idx, count, dir)
     IN  /\ Queue' = r.q
         /\ elems' = IF r.failed THEN elems ELSE swap_removed(elems, idx, count)
         /\ last' = [op |-> "swap_remove", args |-> <<idx, count>>, before |-> Queue,
                     used |-> ops.used, failed |-> r.failed]
  /\ ops' = [ops EXCEPT !.n = @ + 1, !.used = @ \cup {"swap_remove"}]
  /\ UNCHANGED not_queue

\* q.clear()
Clear ==
  /\ CanApply
  /\ Queue' = clear(Queue).q
  /\ elems' = <<>>
  /\ last' = [op |-> "clear", args |-> <<>>, before |-> Queue, used |-> ops.used,
              failed |-> FALSE]
  /\ ops' = [ops EXCEPT !.n = @ + 1, !.used = @ \cup {"clear"}]
  /\ UNCHANGED not_queue

NextQueue ==
  \/ \E capacity \in 1..MaxCapacity : QueueNew(capacity)
  \/ \E t \in 1..MaxOps : Push(t)
  \/ \E count \in 0..(MaxCapacity + 1) : Pop(count)
  \/ \E idx \in 0..MaxCapacity, count \in 0..(MaxCapacity + 1),
        dir \in {"forward", "backward"} : SwapRemove(idx, count, dir)
  \/ Clear

SpecQueue == Init /\ [][NextQueue]_vars

(***************************************************************************)
(* closure_series (src/common/closure_series.rs)                           *)
(***************************************************************************)

\* The number of closures a series is made of.
MaxClosures == 5

\* pub enum Return
Return == {"Quit", "Continue", "Restart"}

NoSeries == [state |-> "none", closures |-> 0, next |-> 0, calls |-> <<>>]

next_closure_mut(closures, i, r) ==
  IF i + 1 = closures THEN 0 ELSE i + 1

\* The closure until_quit invokes after closure i has returned r (not Quit):
\* Restart breaks out of the for, whose next pass begins at closure 0;
\* Continue moves on, and the end of the for begins the next pass of the loop.
next_closure(closures, i, r) ==
  IF r = "Restart" THEN 0
  ELSE IF i + 1 = closures THEN 0 ELSE i + 1

\* The last two invocations, the latest last.
Window(calls, c) == IF calls = <<>> THEN <<c>> ELSE <<calls[Len(calls)], c>>

\* closure_series::new(closures), then until_quit is entered
SeriesNew(closures) ==
  /\ series = NoSeries
  /\ closures > 0
  /\ series' = [state |-> "running", closures |-> closures, next |-> 0, calls |-> <<>>]
  /\ UNCHANGED not_series

\* until_quit: one pass of the body of the for: the closure is invoked, r is
\* what it returns, and the match acts on it.
Invoke(r) ==
  /\ series.state = "running"
  /\ series' =
       [series EXCEPT
          !.state = IF r = "Quit" THEN "returned" ELSE "running",
          !.next = IF r = "Quit" THEN series.next
                   ELSE next_closure(series.closures, series.next, r),
          !.calls = Window(@, [closure |-> series.next, ret |-> r])]
  /\ UNCHANGED not_series

NextSeries ==
  \/ \E closures \in 1..MaxClosures : SeriesNew(closures)
  \/ \E r \in Return : Invoke(r)

SpecSeries == Init /\ [][NextSeries]_vars

(***************************************************************************)
(* process_receiver (src/common/src/process_events.rs)                     *)
(***************************************************************************)

\* The number of messages sent on the channel.
MaxSends == 3

NotCalled == [state |-> "idle", applied |-> <<>>, received |-> <<>>]

after_apply_mut(accepted) == "running"

\* if !apply(update) { return false }: the state of the call after apply
after_apply(accepted) == IF accepted THEN "running" ELSE "false"

\* The Sender sends the next message: 1, 2, 3, ..
Send ==
  /\ sender.alive
  /\ Len(sender.sent) < MaxSends
  /\ chan' = Append(chan, Len(sender.sent) + 1)
  /\ sender' = [sender EXCEPT !.sent = Append(@, Len(@) + 1)]
  /\ UNCHANGED <<process, not_process>>

\* The Sender is dropped.
Disconnect ==
  /\ sender.alive
  /\ sender' = [sender EXCEPT !.alive = FALSE]
  /\ UNCHANGED <<chan, process, not_process>>

\* process_receiver(&chan, apply) is called (again)
ProcessReceiver ==
  /\ process.state \in {"idle", "true", "false"}
  /\ process' = [process EXCEPT !.state = "running", !.applied = <<>>]
  /\ UNCHANGED <<chan, sender, not_process>>

\* One pass of the loop: chan.try_recv() and its match; accepted is what
\* apply returns for the message, if one is received.
TryRecv(accepted) ==
  /\ process.state = "running"
  /\ IF chan = <<>>
     THEN /\ process' = [process EXCEPT !.state = IF sender.alive THEN "true" ELSE "panic"]
          /\ UNCHANGED chan
     ELSE /\ chan' = Tail(chan)
          /\ process' = [process EXCEPT
                           !.state = after_apply(accepted),
                           !.applied = Append(@, <<Head(chan), accepted>>),
                           !.received = Append(@, Head(chan))]
  /\ UNCHANGED <<sender, not_process>>

NextProcess ==
  \/ Send
  \/ Disconnect
  \/ ProcessReceiver
  \/ \E accepted \in BOOLEAN : TryRecv(accepted)

SpecProcess == Init /\ [][NextProcess]_vars

(***************************************************************************)
(* view::update::apply_client_to_view (src/client/lib/src/view/update.rs)  *)
(***************************************************************************)

\* The number of updates applied to one view.
MaxUpdates == 2

\* pub enum T: an update is its variant and what it carries.
Update(tag, arg) == [tag |-> tag, arg |-> arg]

Atomic(updates) == Update("Atomic", updates)

\* The updates that are not Atomic: positions, suns, ids and meshes 1, 2.
BaseUpdates ==
  {Update("MoveCamera", 1), Update("MoveCamera", 2), Update("SetSun", 1),
   Update("UpdateMob", 1), Update("UpdatePlayer", 1), Update("LoadMesh", 1),
   Update("UnloadMesh", 1)}

\* The updates nested inside an Atomic that is itself inside an Atomic.
InnerUpdates == {Update("MoveCamera", 1), Update("MoveCamera", 2), Update("UnloadMesh", 1)}

\* Atomic of up to two updates, and Atomic with an Atomic before or after
\* another update.
AtomicUpdates ==
  {Atomic(<<>>)}
  \cup {Atomic(<<a>>) : a \in BaseUpdates}
  \cup {Atomic(<<a, b>>) : a \in BaseUpdates, b \in BaseUpdates}
  \cup {Atomic(<<a, Atomic(<<b, c>>)>>) : a \in InnerUpdates, b \in InnerUpdates, c \in InnerUpdates}
  \cup {Atomic(<<Atomic(<<a, b>>), c>>) : a \in InnerUpdates, b \in InnerUpdates, c \in InnerUpdates}

Updates == BaseUpdates \cup AtomicUpdates

NoView == [tag |-> "none"]

\* view::T, as far as the updates touch it: the camera position, the sun, the
\* input mode, and per buffer the calls made on it, in order.
View_new(input_mode) ==
  [tag |-> "view", camera |-> 0, sun |-> 0, input_mode |-> input_mode,
   mob_buffers |-> <<>>, player_buffers |-> <<>>, terrain_buffers |-> <<>>,
   grass_buffers |-> <<>>]

RECURSIVE apply_client_to_view(_, _)

RECURSIVE apply_updates_mut(_, _)
apply_updates_mut(v, updates) ==
  IF updates = <<>> THEN v
  ELSE apply_client_to_view(apply_updates_mut(v, Tail(updates)), Head(updates))

\* for up in updates { apply_client_to_view(view, up); }
RECURSIVE apply_updates(_, _)
apply_updates(v, updates) ==
  IF updates = <<>> THEN v
  ELSE apply_updates(apply_client_to_view(v, Head(updates)), Tail(updates))

\* apply_client_to_view(view, up)
apply_client_to_view(v, up) ==
  CASE up.tag = "MoveCamera" -> [v EXCEPT !.camera = up.arg]
    [] up.tag = "UpdateMob" -> [v EXCEPT !.mob_buffers = Append(@, <<"insert", up.arg>>)]
    [] up.tag = "UpdatePlayer" -> [v EXCEPT !.player_buffers = Append(@, <<"insert", up.arg>>)]
    [] up.tag = "SetSun" -> IF v.input_mode = "Sun" THEN v ELSE [v EXCEPT !.sun = up.arg]
    [] up.tag = "LoadMesh" ->
         [v EXCEPT !.terrain_buffers = Append(@, <<"push", up.arg>>),
                   !.grass_buffers = Append(@, <<"push", up.arg>>)]
    [] up.tag = "UnloadMesh" ->
         [v EXCEPT !.grass_buffers = Append(@, <<"swap_remove", up.arg>>),
                   !.terrain_buffers = Append(@, <<"swap_remove", up.arg>>)]
    [] up.tag = "Atomic" -> apply_updates(v, up.arg)

NoUpdate == Update("none", 0)

\* view::T is made, in one of the input modes
ViewNew(input_mode) ==
  /\ view = NoView
  /\ view' = View_new(input_mode)
  /\ applied' = [n |-> 0, up |-> NoUpdate, before |-> NoView]
  /\ UNCHANGED not_view

\* apply_client_to_view(&mut view, up): the view thread applies one update
\* it received; the exclusive borrow keeps every other update out until the
\* call returns.
ApplyClientToView(up) ==
  /\ view # NoView
  /\ applied.n < MaxUpdates
  /\ view' = apply_client_to_view(view, up)
  /\ applied' = [n |-> applied.n + 1, up |-> up, before |-> view]
  /\ UNCHANGED not_view

NextView ==
  \/ \E input_mode \in {"Camera", "Sun"} : ViewNew(input_mode)
  \/ \E up \in Updates : ApplyClientToView(up)

SpecView == Init /\ [][NextView]_vars

(***************************************************************************)
(* TerrainBlock::generate, add_tile (src/src/terrain_block.rs)             *)
(* Coordinates are in halves, as for BlockPosition.                        *)
(***************************************************************************)

\* The heights the heightmap gives at the corners of a tile and at its
\* centre, in world units.
CornerHeights == {1, 3}

CentreHeights == {0, 2, 9}

\* TerrainBlock::empty()
old_TerrainBlock_empty ==
  [vertex_coordinates |-> <<>>, normals |-> <<>>, coords |-> <<>>, ids |-> <<>>,
   bounds |-> <<>>]

\* let sample_width = BLOCK_WIDTH as f32 / lateral_samples as f32;
sample_width(lod_index) == (Half * BLOCK_WIDTH) \div lateral_samples(lod_index)

\* hm.point_at(x, z), for a heightmap that has height h there
point_at(x, h, z) == <<x, Half * h, z>>

\* The position generate hands to add_tile for the tile (dx, dz) of a block.
tile_position(position, lod_index, dx, dz) ==
  <<Half * position[1] * BLOCK_WIDTH + dx * sample_width(lod_index),
    Half * position[2] * BLOCK_WIDTH,
    Half * position[3] * BLOCK_WIDTH + dz * sample_width(lod_index)>>

\* The index of coord for the terrain type add_tile picks.
terrain_type(ps, center) ==
  LET center_lower_than == Cardinality({k \in 1..4 : center[2] < ps[k][2]})
  IN  IF center_lower_than = 4 THEN 2      \* Stone
      ELSE IF center_lower_than = 3 THEN 1 \* Dirt
      ELSE 0                               \* Grass

\* place_terrain!($v1, $v2, $n1, $n2, $minx, $minz, $maxx, $maxz), with the
\* id allocated for the triangle
place_terrain(b, center, coord, v1, v2, n1, n2, minx, minz, maxx, maxz) ==
  LET maxy == Max3(v1[2], v2[2], center[2])
      id == Len(b.ids) + 1
  IN  [vertex_coordinates |-> Append(b.vertex_coordinates, <<v1, v2, center>>),
       normals |-> Append(b.normals, <<n1, n2, 0>>),
       coords |-> Append(b.coords, <<coord, coord, coord>>),
       ids |-> Append(b.ids, id),
       bounds |-> Append(b.bounds,
                    [id |-> id, min |-> <<minx, v1[2], minz>>, max |-> <<maxx, maxy, maxz>>])]

\* add_tile(.., block, sample_width, position, lod_index) over a heightmap
\* whose heights around the tile are hs
add_tile(b, sw, position, hs) ==
  LET half_width == sw \div 2
      center == point_at(position[1] + half_width, hs.center, position[3] + half_width)
      x2 == position[1] + sw
      z2 == position[3] + sw
      ps == <<point_at(position[1], hs.corners[1], position[3]),
              point_at(position[1], hs.corners[2], z2),
              point_at(x2, hs.corners[3], z2),
              point_at(x2, hs.corners[4], position[3])>>
      coord == terrain_type(ps, center)
      b1 == place_terrain(b, center, coord, ps[1], ps[2], 1, 2,
                          ps[1][1], ps[1][3], center[1], ps[2][3])
      b2 == place_terrain(b1, center, coord, ps[2], ps[3], 2, 3,
                          ps[2][1], center[3], ps[3][1], ps[3][3])
      b3 == place_terrain(b2, center, coord, ps[3], ps[4], 3, 4,
                          center[1], center[3], ps[3][1], ps[3][3])
      b4 == place_terrain(b3, center, coord, ps[4], ps[1], 4, 1,
                          ps[1][1], ps[1][3], ps[4][1], center[3])
  IN  IF position[2] >= center[2] \/ center[2] > position[2] + Half * BLOCK_WIDTH
      THEN b
      ELSE b4

NoTile == [tag |-> "none"]

\* One pass of the loops of TerrainBlock::generate: add_tile for the tile
\* (dx, dz) of the block at position, into an empty block. What place_tree
\* adds for a tree on the tile is left out.
AddTile(position, lod_index, dx, dz, hs) ==
  /\ tile = NoTile
  /\ dx < lateral_samples(lod_index)
  /\ dz < lateral_samples(lod_index)
  /\ tile' = [tag |-> "tile", position |-> position, lod_index |-> lod_index,
              dx |-> dx, dz |-> dz, heights |-> hs,
              block |-> add_tile(old_TerrainBlock_empty, sample_width(lod_index),
                                 tile_position(position, lod_index, dx, dz), hs)]
  /\ UNCHANGED not_tile

NextTile ==
  \E position \in {<<0, 0, 0>>, <<-1, 0, 1>>}, lod_index \in LODIndex, dx \in 0..1, dz \in 0..1,
     center \in CentreHeights,
     corners4 \in CornerHeights \X CornerHeights \X CornerHeights \X CornerHeights :
    AddTile(position, lod_index, dx, dz, [center |-> center, corners |-> corners4])

SpecTile == Init /\ [][NextTile]_vars

(************************** the order of the locks *************************)

\* The Mutexes a thread locks in its next step, from where it is: those of
\* LockNames, which it may have to wait for, and those that are locked and
\* unlocked inside one statement (id_allocator, physics, client_allocator).
takes(t) ==
  CASE pc[t] \in {"load_lock", "brush_lock", "cast_lock"} -> {"terrain_loader"}
    [] pc[t] \in {"load_generate", "brush_next"} -> {"id_allocator"}
    [] pc[t] = "load_deliver" ->
         IF req[t].reason = "Local" THEN {"physics"} ELSE {"clients"}
    [] pc[t] \in {"report_lock", "init_insert", "ping", "add_player_notify"} ->
         {"clients"}
    [] pc[t] = "add_player" -> {"id_allocator", "physics", "players"}
    [] pc[t] = "cast_players" -> {"players"}
    [] pc[t] = "rng_lock" -> {"rng"}
    [] pc[t] \in {"idle", "done"} -> {"client_allocator"}
    [] OTHER -> {}

(***************************************************************************)
(* Properties                                                              *)
(***************************************************************************)

\* The thread is between taking and dropping the terrain_loader guard in a
\* Load, an AddTree or a RemoveSphere: every step from these places reads or
\* writes all_blocks, voxels or lod_map, or sends the block it read.
InLoad(t) == pc[t] \in {"load_terrain", "load_generate", "load_deliver", "load_send"}
InBrush(t) == pc[t] \in {"brush", "brush_next", "report_lock", "report_send"}
Mutating(t) == InLoad(t) \/ InBrush(t)
Waiting(t) == pc[t] \in {"load_lock", "brush_lock", "cast_lock"}
Processed(t) == pc[t] \in {"done", "panicked"}

TerrainState == <<all_blocks, voxels, lod_map>>

C1_Exclusive ==
  /\ Cardinality({t \in Threads : Mutating(t)}) <= 1
  /\ \A t \in Threads : Mutating(t) => Held("terrain_loader", t)

\* C1: at most one Load/AddTree/RemoveSphere at a time is between taking and
\* dropping the terrain_loader lock, each holds the lock for as long as it is
\* there, and the octree and the load bookkeeping change only in a step of the
\* request that holds the lock.
C1_SingleWriter ==
  /\ []C1_Exclusive
  /\ [][TerrainState' # TerrainState =>
          \E t \in Threads : Mutating(t) /\ Held("terrain_loader", t)
                             /\ pc'[t] # pc[t]]_vars

C1_Witness ==
  \E t, u \in Threads :
    /\ req[t].op = "Load" /\ pc[t] = "load_generate"
    /\ req[u].op = "AddTree" /\ pc[u] = "brush_lock"

\* The block a Load delivered: inserted locally or sent to its client.
Delivered(t) == req[t].op = "Load" /\ effects[t].block # NoBlock

C3_LoadRouting ==
  \A t \in Threads :
    (req[t].op = "Load" /\ Processed(t)) =>
      IF req[t].reason = "ForClient"
      THEN /\ effects[t].sent = << <<req[t].id, UpdateBlock(req[t].key, local[t].block)>> >>
           /\ local[t].block # NoBlock
           /\ ~effects[t].inserted
      ELSE /\ effects[t].inserted
           /\ effects[t].sent = <<>>

\* What a request put on the queue of client c, in order.
RECURSIVE SentTo(_, _)
SentTo(sent, c) ==
  IF sent = <<>> THEN <<>>
  ELSE (IF Head(sent)[1] = c THEN <<Head(sent)[2]>> ELSE <<>>) \o SentTo(Tail(sent), c)

\* The UpdateBlock of every report made while c was in the clients map, in order.
RECURSIVE ReportedTo(_, _)
ReportedTo(reports, c) ==
  IF reports = <<>> THEN <<>>
  ELSE (IF c \in Head(reports).clients
        THEN <<UpdateBlock(Head(reports).key, Head(reports).block)>>
        ELSE <<>>) \o ReportedTo(Tail(reports), c)

IsBrush(t) == req[t].op \in {"AddTree", "RemoveSphere"}

\* C4: a processed AddTree or RemoveSphere has put, on the queue of every
\* client, one UpdateBlock for each block reported while that client was in
\* the clients map, in the order of the reports.
C4_BrushBroadcast ==
  \A t \in Threads :
    (IsBrush(t) /\ Processed(t)) =>
      \A c \in ClientIds :
        SentTo(effects[t].sent, c) = ReportedTo(effects[t].reports, c)

\* C5: a failed send is isolated: the Load, AddTree or RemoveSphere that met it
\* completes and leaves no Mutex poisoned, and an AddTree or RemoveSphere that
\* met it has still delivered every reported block to every client whose
\* channel is connected.
C5_SendFailureIsolated ==
  \A t \in Threads :
    (effects[t].cause = "send_failed" /\ (req[t].op = "Load" \/ IsBrush(t))) =>
      /\ pc[t] # "panicked"
      /\ \A l \in LockNames : ~mutex[l].poisoned
      /\ \A c \in ClientIds :
           (IsBrush(t) /\ connected[c]) =>
             SentTo(effects[t].sent, c) = ReportedTo(effects[t].reports, c)

\* C6: a request naming a client id that is not in the clients map ends in a
\* not-found outcome of its own: its thread does not panic, no Mutex is
\* poisoned, and an AddPlayer of it leaves no player behind.
C6_NotFoundIsolated ==
  \A t \in Threads :
    effects[t].cause = "client_not_found" =>
      /\ pc[t] # "panicked"
      /\ \A l \in LockNames : ~mutex[l].poisoned
      /\ req[t].op = "AddPlayer" => local[t].block.id \notin players

C7_CastExclusive ==
  \A t \in Threads :
    pc[t] = "cast_ray" =>
      /\ Held("terrain_loader", t)
      /\ \A u \in Threads \ {t} : ~Mutating(u)

\* C7: while a thread is in cast_ray it holds the terrain_loader lock and no
\* Load, AddTree or RemoveSphere is inside its critical section; and the step
\* that runs cast_ray leaves the octree and the load bookkeeping as they were.
C7_CastReadOnly ==
  /\ []C7_CastExclusive
  /\ [][(\E t \in Threads : pc[t] = "cast_ray" /\ pc'[t] # "cast_ray")
          => TerrainState' = TerrainState]_vars

C7_Witness ==
  \E t, u \in Threads :
    /\ pc[t] = "cast_ray" /\ req[t].op \in {"Add", "Remove"}
    /\ pc[u] = "load_lock"

(************************* generate_voxel **********************************)

Corner3 == Bit \X Bit \X Bit
At(c, p) == c[p[1]][p[2]][p[3]]

\* The cube's edges whose endpoints differ: pairs <<p, q>> of corners with q
\* one step above p along one axis.
CrossingEdges(c) ==
  {e \in Corner3 \X Corner3 :
     /\ \E a \in 1 .. 3 :
          /\ e[1][a] = 0 /\ e[2][a] = 1
          /\ \A b \in (1 .. 3) \ {a} : e[1][b] = e[2][b]
     /\ At(c, e[1]) # At(c, e[2])}

RECURSIVE SumOver(_, _)
SumOver(S, a) ==
  IF S = {} THEN 0
  ELSE LET e == CHOOSE x \in S : TRUE
       IN 128 * (e[1][a] + e[2][a]) + SumOver(S \ {e}, a)

\* 256 times the sum, over the crossing edges, of the midpoint's coordinate a.
MidpointSum(c, a) == SumOver(CrossingEdges(c), a)

Abs(v) == IF v < 0 THEN -v ELSE v

\* C8: generate_voxel returns None exactly when all 8 corners agree.
C8_NoneIffCornersAgree ==
  voxel # Pending =>
    ((voxel = None) <=> (\A p, q \in Corner3 : At(corners, p) = At(corners, q)))

C8_Witness ==
  /\ voxel = None
  /\ \A p \in Corner3 : At(corners, p)

\* C9: each component of a returned vertex is a numerator in 0..255 whose
\* fraction is less than 1/256 away from the mean of the crossing edges'
\* midpoints, and the quotient converted to 8 bits is below 256 (no wrap).
C9_VertexNearMean ==
  voxel.tag = "some" =>
    LET n == Cardinality(CrossingEdges(corners))
        s == vertex_sum(voxel.edge_crosses)
    IN \A a \in 1 .. 3 :
         /\ voxel.vertex[a] \in 0 .. 255
         /\ Abs(voxel.vertex[a] * n - MidpointSum(corners, a)) < n
         /\ div_s(s[a], s[4]) < 256

\* C10: each component of a returned vertex is round(256 * mean), the mean of
\* the crossing edges' midpoints rounded to the nearest 1/256.
C10_RoundToNearest ==
  voxel.tag = "some" =>
    LET n == Cardinality(CrossingEdges(corners))
    IN \A a \in 1 .. 3 :
         voxel.vertex[a] = (2 * MidpointSum(corners, a) + n) \div (2 * n)

\* C11: in a returned voxel each flag of edge_crosses is set exactly when the
\* two endpoints of the edge the literal names at that place differ (x_edges
\* by y then z, y_edges by z then x, z_edges by y then x), and facing[a] holds
\* exactly when some crossing edge along axis a has its lower corner inside.
C11_EdgesAndFacing ==
  voxel.tag = "some" =>
    /\ \A i, j \in Bit :
         /\ voxel.edge_crosses.x_edges[i][j]
              = (At(corners, <<0, i, j>>) # At(corners, <<1, i, j>>))
         /\ voxel.edge_crosses.y_edges[i][j]
              = (At(corners, <<j, 0, i>>) # At(corners, <<j, 1, i>>))
         /\ voxel.edge_crosses.z_edges[i][j]
              = (At(corners, <<j, i, 0>>) # At(corners, <<j, i, 1>>))
    /\ \A a \in 1 .. 3 :
         voxel.facing[a]
           <=> \E e \in CrossingEdges(corners) :
                 e[1][a] = 0 /\ e[2][a] = 1 /\ At(corners, e[1])

\* A voxel with crossing edges along x and y, the x ones with their lower
\* corner inside and the y ones with their lower corner outside.
C11_Witness ==
  /\ voxel.tag = "some"
  /\ voxel.facing[1] /\ ~voxel.facing[2]
  /\ \E i, j \in Bit : voxel.edge_crosses.y_edges[i][j]

(***************************************************************************)
(* Properties of generate_block                                            *)
(***************************************************************************)

\* <<axis, x, y, z>> a before b in the order of the three extract! loops
CursorBefore(a, b) ==
  \E k \in 1 .. 4 : a[k] < b[k] /\ \A m \in 1 .. (k - 1) : a[m] = b[m]

\* C12: two calls of generate_block that have returned, for the same
\* position and LOD and each begun with the allocator at the same id, over
\* the one heightmap, gave the same vertex_coordinates, normals and bounds,
\* the second having run on the octree the first left; and the triangles of
\* every returned block come four per quad, the quads in the order x edges,
\* y edges, z edges, each by ascending x, y, z.
C12_Deterministic ==
  /\ \A i, j \in 1 .. Len(returned) :
       ( /\ i < j
         /\ returned[i].position = returned[j].position
         /\ returned[i].lod_index = returned[j].lod_index
         /\ returned[i].first_id = returned[j].first_id )
       => /\ returned[i].block.vertex_coordinates = returned[j].block.vertex_coordinates
          /\ returned[i].block.normals = returned[j].block.normals
          /\ returned[i].block.bounds = returned[j].block.bounds
  /\ \A i \in 1 .. Len(returned) :
       /\ Len(returned[i].block.vertex_coordinates) = 4 * Len(returned[i].quads)
       /\ \A k \in 1 .. (Len(returned[i].quads) - 1) :
            CursorBefore(returned[i].quads[k], returned[i].quads[k + 1])

\* Two returned calls for one position and LOD, both begun with a new
\* allocator, whose blocks have quads from more than one of the three loops.
C12_Witness ==
  /\ Len(returned) = 2
  /\ returned[1].position = returned[2].position
  /\ returned[1].lod_index = returned[2].lod_index
  /\ returned[1].first_id = IdAllocator_new
  /\ returned[2].first_id = IdAllocator_new
  /\ \E k, m \in 1 .. Len(returned[2].quads) :
       returned[2].quads[k][1] # returned[2].quads[m][1]

\* The number of triangles of a block.
Triangles(b) == Len(b.vertex_coordinates)

\* C13: the block generate_block is building, and every block it has
\* returned, at a LOD of N lateral samples, has at most 4 * 3 * N^3 triangles.
C13_TriangleBound ==
  /\ call.pc # "idle" =>
       Triangles(terrain_block) <= 4 * 3 * lateral_samples(call.lod_index) ^ 3
  /\ \A i \in 1 .. Len(returned) :
       Triangles(returned[i].block)
         <= 4 * 3 * lateral_samples(returned[i].lod_index) ^ 3

\* A returned block of 4 lateral samples with more triangles than one layer
\* of quads.
C13_Witness ==
  \E i \in 1 .. Len(returned) :
    /\ lateral_samples(returned[i].lod_index) = 4
    /\ Triangles(returned[i].block) > 4 * 4 * 4

\* The block being built, if a call is running, and the blocks returned.
Blocks ==
  (IF call.pc = "idle" THEN {} ELSE {terrain_block})
    \union {returned[i].block : i \in 1 .. Len(returned)}

\* C14: in every block of generate_block the per-triangle sequences
\* vertex_coordinates, normals, coords, ids and bounds have the same length.
C14_SequenceLengths ==
  \A b \in Blocks :
    /\ Len(b.normals) = Triangles(b)
    /\ Len(b.coords) = Triangles(b)
    /\ Len(b.ids) = Triangles(b)
    /\ Len(b.bounds) = Triangles(b)

\* C15: for every triangle i of a block, bounds[i] has for maximum the
\* component-wise maximum of the three vertices of vertex_coordinates[i], and
\* for minimum their component-wise minimum with the Y component alone
\* lowered by 1.0; so the box contains the three vertices.
C15_BoundsOfTriangle ==
  \A b \in Blocks :
    \A i \in 1 .. Len(b.bounds) :
      LET t == b.vertex_coordinates[i]
          box == b.bounds[i][2]
      IN \A a \in 1 .. 3 :
           /\ box.max[a] = Max3(t[1][a], t[2][a], t[3][a])
           /\ box.min[a] = Min3(t[1][a], t[2][a], t[3][a])
                             - (IF a = 2 THEN Unit ELSE 0)
           /\ \A k \in 1 .. 3 : box.min[a] <= t[k][a] /\ t[k][a] <= box.max[a]

\* A returned block with a triangle whose third vertex, the centre of the
\* quad, is alone at the minimum of one component and whose vertices differ
\* in Y.
C15_Witness ==
  \E i \in 1 .. Len(returned) :
    \E k \in 1 .. Len(returned[i].block.bounds) :
      LET t == returned[i].block.vertex_coordinates[k]
      IN /\ \E a \in 1 .. 3 : t[3][a] < t[1][a] /\ t[3][a] < t[2][a]
         /\ t[1][2] # t[2][2]

\* Every block returned for the block at the origin at LOD 0 over the field
\* "solid iff y < 5" is one layer of quads, one quad of four triangles for
\* each (x, z) column and nothing else, all from y edges of the voxels at
\* y = 4, whose y facing flag is set, with every vertex at height y2 / 2.
FlatLayerAt(y2) ==
  \A i \in 1 .. Len(returned) :
    LET r == returned[i]
        n == lateral_samples(r.lod_index)
    IN ( /\ heightmap = FlatHeightMap
         /\ r.position = <<0, 0, 0>>
         /\ r.lod_index = 0 )
       => /\ Triangles(r.block) = 4 * n * n
          /\ Len(r.quads) = n * n
          /\ {r.quads[k] : k \in 1 .. Len(r.quads)}
               = {<<2, x, 4, z>> : x, z \in 0 .. (n - 1)}
          /\ \A k \in 1 .. Triangles(r.block) :
               \A v \in 1 .. 3 :
                 2 * r.block.vertex_coordinates[k][v][2] = y2 * Unit
          /\ \A x, z \in 0 .. (n - 1) :
               LET slot == TreeBody(voxel_tree, <<x, 4, z, 0>>)
               IN slot.tag = "leaf" /\ slot.voxel.facing[2]

\* C16: for the field "solid iff y < 5", the block at the origin and LOD 0,
\* generate_block returns exactly one flat layer of quads, one quad of four
\* triangles per (x, z) column, every vertex at y = 4.5 (the middle of the
\* edges from y = 4, solid, to y = 5, empty), from voxels whose y facing flag
\* is set.
C16_FlatLayer == FlatLayerAt(9)

\* C16 as it was stated: the same layer, with every vertex at y = 5.
C16_FlatLayerAtFive == FlatLayerAt(10)

\* The call of the example has returned its 64 quads.
C16_Witness ==
  /\ heightmap = FlatHeightMap
  /\ Len(returned) >= 1
  /\ returned[1].position = <<0, 0, 0>>
  /\ returned[1].lod_index = 0
  /\ Triangles(returned[1].block) = 256

\* C17: no unwrap of get_vertex! fails: generate_block never panics, and
\* every lookup of a neighbour of a voxel whose edge crosses has left a Leaf
\* in the neighbour's slot.
C17_NeighboursHaveVoxels ==
  /\ call.pc # "panicked"
  /\ \A k \in 2 .. Len(accesses) : accesses[k].left = "leaf"

\* The three neighbours of a crossing edge have been looked up, in a call
\* that follows a call at another LOD: one of them lies in the adjacent block
\* at negative x, one was regenerated over a Branch, one read from a Leaf.
C17_Witness ==
  /\ call.pc = "add_poly"
  /\ Len(returned) >= 1
  /\ returned[1].lod_index # call.lod_index
  /\ Len(accesses) = 4
  /\ \E k \in 2 .. 4 : accesses[k].bounds[1] < 0
  /\ \E k \in 2 .. 4 : accesses[k].found = "branch"
  /\ \E k \in 2 .. 4 : accesses[k].found = "leaf"

\* The slot of bounds b has a surface: its 8 corners do not all agree.
HasSurface(b) ==
  \E p, q \in Corner3 :
    At(corners_of(heightmap, b), p) # At(corners_of(heightmap, b), q)

C19_AlwaysResampled ==
  \A k \in 1 .. Len(accesses) : accesses[k].sampled

\* C19: an access calls the sampler exactly when it finds the slot Empty or
\* a Branch; a Leaf is handed back as stored, and is left in its slot.  Every
\* Leaf of the octree is what the sampler returns for its bounds over the
\* heightmap, so sampling again would not change it; a slot found Empty that
\* has no surface is left Empty.
C19_SampledUnlessLeaf ==
  /\ \A k \in 1 .. Len(accesses) :
       /\ accesses[k].sampled <=> accesses[k].found # "leaf"
       /\ accesses[k].found = "leaf" => accesses[k].left = "leaf"
       /\ (accesses[k].found = "empty" /\ ~HasSurface(accesses[k].bounds))
            => accesses[k].left = "empty"
  /\ \A b \in DOMAIN voxel_tree :
       voxel_tree[b].tag = "leaf" =>
         voxel_tree[b].voxel = generate_voxel(corners_of(heightmap, b))

\* A pass of extract! whose accesses found a Leaf stored by an earlier
\* access and also an Empty slot, in a second call.
C19_Witness ==
  /\ Len(returned) >= 1
  /\ \E k \in 1 .. Len(accesses) : accesses[k].found = "leaf"
  /\ \E k \in 1 .. Len(accesses) : accesses[k].found = "empty"

\* The calls so far, in order: those that have returned and the running one.
Runs ==
  returned \o
    (IF call.pc = "idle" THEN <<>>
     ELSE << [position |-> call.position, lod_index |-> call.lod_index,
              first_id |-> call.first_id, block |-> terrain_block,
              quads |-> quads] >>)

\* Calls i < j were given the same allocator: none after i began with a new one.
SameAllocator(i, j) ==
  \A k \in (i + 1) .. j : Runs[k].first_id # IdAllocator_new

IdsOf(b) == {b.ids[k] : k \in 1 .. Len(b.ids)}

\* C20: every triangle of a block has one id, which is also the id stored in
\* its bounds entry and was allocated during the call; no two triangles of a
\* block have the same id, and no id is in the blocks of two calls that
\* share an allocator.
C20_IdsUnique ==
  /\ \A i \in 1 .. Len(Runs) :
       LET b == Runs[i].block
       IN /\ Len(b.ids) = Triangles(b)
          /\ Len(b.bounds) = Triangles(b)
          /\ \A k \in 1 .. Len(b.ids) :
               /\ b.ids[k] = b.bounds[k][1]
               /\ b.ids[k] >= Runs[i].first_id
               /\ \A m \in 1 .. Len(b.ids) : m # k => b.ids[m] # b.ids[k]
  /\ \A i, j \in 1 .. Len(Runs) :
       (i < j /\ SameAllocator(i, j)) =>
         IdsOf(Runs[i].block) \cap IdsOf(Runs[j].block) = {}

\* Two calls on one allocator have returned, each with triangles.
C20_Witness ==
  /\ Len(returned) = 2
  /\ returned[2].first_id # IdAllocator_new
  /\ Triangles(returned[1].block) > 0
  /\ Triangles(returned[2].block) > 0

\* C21: the tree brush sent in AddTree has trunk_radius in [1, 3],
\* trunk_height in [4 * trunk_radius, 12 * trunk_radius] and leaf_radius in
\* [2 * trunk_radius, 6 * trunk_radius].
C21_BrushInRanges ==
  brush # NoBrush =>
    /\ F64Unit <= brush.trunk_radius /\ brush.trunk_radius <= 3 * F64Unit
    /\ 4 * brush.trunk_radius <= brush.trunk_height
    /\ brush.trunk_height <= 12 * brush.trunk_radius
    /\ 2 * brush.trunk_radius <= brush.leaf_radius
    /\ brush.leaf_radius <= 6 * brush.trunk_radius

\* The floor of a / b for b > 0.
FloorDiv(a, b) == a \div b

\* C22: from_world_position gives per axis the floor of coordinate /
\* BLOCK_WIDTH, the world point lies in the block it maps to, and
\* from_world_position(to_world_position(p)) = p for every block position p.
C22_FloorAndRoundTrip ==
  /\ convert.op \in {"mapped", "round_trip"} =>
        \A a \in 1..3 :
          /\ block_position[a] = FloorDiv(world_position[a], Half * BLOCK_WIDTH)
          /\ Half * BLOCK_WIDTH * block_position[a] <= world_position[a]
          /\ world_position[a] < Half * BLOCK_WIDTH * (block_position[a] + 1)
  /\ convert.op = "round_trip" => block_position = convert.p

\* The part of C22 that holds: floor division for every coordinate tried,
\* negative ones included, and the round trip for |p| <= 2^24.
C22_FloorInRange ==
  /\ convert.op \in {"mapped", "round_trip"} =>
        \A a \in 1..3 :
          /\ block_position[a] = FloorDiv(world_position[a], Half * BLOCK_WIDTH)
          /\ Half * BLOCK_WIDTH * block_position[a] <= world_position[a]
          /\ world_position[a] < Half * BLOCK_WIDTH * (block_position[a] + 1)
  /\ (convert.op = "round_trip" /\ \A a \in 1..3 : convert.p[a] \in -(2 ^ 24)..(2 ^ 24))
       => block_position = convert.p

\* The elements of a queue read from its buffer: logical position i is the
\* cell at (head + i) mod capacity.
Logical(s) ==
  [i \in 1..s.length |->
     s.contents.buf[((s.head + i - 1) % Vec_capacity(s.contents)) + 1]]

\* Only push and pop were applied to the queue so far.
OnlyPushPop == Queue # NoQueue /\ ~last.failed /\ ops.used \subseteq {"push", "pop"}

\* C23: after pushes and pops, the two slices of slices(0, len()) hold
\* together len() elements, and their concatenation is the elements pushed and
\* not yet popped, in push order; also when the queue is full.
C23_SlicesHoldElems ==
  OnlyPushPop =>
    LET s == slices(Queue, 0, Queue.length)
    IN  /\ ~s.failed
        /\ Len(s.l) + Len(s.h) = Queue.length
        /\ s.l \o s.h = elems

\* The part of C23 that holds: the same, for a queue that is not full.
C23_SlicesUnlessFull ==
  (OnlyPushPop /\ Queue.length < Vec_capacity(Queue.contents)) =>
    LET s == slices(Queue, 0, Queue.length)
    IN  /\ ~s.failed
        /\ Len(s.l) + Len(s.h) = Queue.length
        /\ s.l \o s.h = elems

\* C24: swap_remove(idx, count) on a queue reached by push and pop leaves
\* len() - count elements, the former last count at positions idx .. idx +
\* count and every other position unchanged.
C24_SwapRemoveMoves ==
  (last.op = "swap_remove" /\ ~last.failed /\ last.used \subseteq {"push", "pop"}) =>
    /\ Queue.length = last.before.length - last.args[2]
    /\ Logical(Queue) = elems

\* The part of C24 that holds: the same, when head is 0.
C24_SwapRemoveAtHeadZero ==
  (last.op = "swap_remove" /\ ~last.failed /\ last.used \subseteq {"push", "pop"}
     /\ last.before.head = 0) =>
    /\ Queue.length = last.before.length - last.args[2]
    /\ Logical(Queue) = elems

\* C29: while no assertion has failed, length <= capacity, head < capacity,
\* tail < capacity and tail = (head + length) mod capacity; a push on a full
\* queue and a pop or swap_remove of more elements than the queue holds fail
\* their assertion and leave head, tail and length as they were.
C29_IndicesInRange ==
  /\ (Queue # NoQueue /\ ~last.failed) =>
       LET capacity == Vec_capacity(Queue.contents)
       IN  /\ Queue.length <= capacity
           /\ Queue.head < capacity
           /\ Queue.tail < capacity
           /\ Queue.tail = (Queue.head + Queue.length) % capacity
  /\ (last.op = "push" /\ last.before.length = Vec_capacity(last.before.contents)) =>
       last.failed
  /\ (last.op = "pop" /\ last.args[1] > last.before.length) => last.failed
  /\ (last.op = "swap_remove" /\ last.args[2] > last.before.length) => last.failed
  /\ (last.failed /\ (last.op \in {"push", "pop"} \/ last.args[2] > last.before.length)) =>
       /\ Queue.head = last.before.head
       /\ Queue.tail = last.before.tail
       /\ Queue.length = last.before.length

\* A push on a full queue has failed, after a pop and a swap_remove that
\* passed their assertions and with head off 0.
C29_Witness ==
  /\ last.op = "push" /\ last.failed
  /\ {"pop", "swap_remove"} \subseteq last.used
  /\ Queue.head > 0

\* C30: after pushes, pops and swap_removes, push(t) stores t at the buffer
\* index tail had before the push, the logical position len() - 1 (which
\* slices returns, unless the queue is now full).
C30_PushStoresAtTail ==
  (last.op = "push" /\ ~last.failed /\ last.used \subseteq {"push", "pop", "swap_remove"}) =>
    /\ Queue.contents.buf[last.before.tail + 1] = last.args[1]
    /\ Queue.length < Vec_capacity(Queue.contents) =>
         LET s == slices(Queue, 0, Queue.length)
         IN  /\ ~s.failed
             /\ Len(s.l \o s.h) = Queue.length
             /\ (s.l \o s.h)[Queue.length] = last.args[1]

\* The part of C30 that holds: the same, when no swap_remove came before.
C30_PushAfterPushPop ==
  (last.op = "push" /\ ~last.failed /\ last.used \subseteq {"push", "pop"}) =>
    /\ Queue.contents.buf[last.before.tail + 1] = last.args[1]
    /\ Queue.length < Vec_capacity(Queue.contents) =>
         LET s == slices(Queue, 0, Queue.length)
         IN  /\ ~s.failed
             /\ Len(s.l \o s.h) = Queue.length
             /\ (s.l \o s.h)[Queue.length] = last.args[1]

\* C25: until_quit invokes closure 0 first; after closure i returned
\* Continue, closure i + 1, or closure 0 when i was the last; after Restart,
\* closure 0; it has returned exactly when the last closure invoked returned
\* Quit, and no closure is invoked after a Quit.
C25_Order ==
  series.state # "none" =>
    /\ Len(series.calls) = 1 => series.calls[1].closure = 0
    /\ Len(series.calls) = 2 =>
         /\ series.calls[1].ret # "Quit"
         /\ series.calls[1].ret = "Restart" => series.calls[2].closure = 0
         /\ series.calls[1].ret = "Continue" =>
              series.calls[2].closure =
                IF series.calls[1].closure = series.closures - 1 THEN 0
                ELSE series.calls[1].closure + 1
    /\ series.state = "returned" <=>
         (series.calls # <<>> /\ series.calls[Len(series.calls)].ret = "Quit")

\* A closure other than the first returned Restart and closure 0 was invoked
\* next, returning Quit: until_quit has returned.
C25_Witness ==
  /\ series.state = "returned"
  /\ Len(series.calls) = 2
  /\ series.calls[1].closure > 0
  /\ series.calls[1].ret = "Restart"

\* C26: process_receiver applies the messages in the order they were sent
\* and leaves the others in the channel in order; it returns true only with
\* every applied message accepted, and it returns false at once when apply
\* returns false: a rejected message is the last one applied by the call.
C26_InOrderUntilRejected ==
  /\ process.received \o chan = sender.sent
  /\ \A k \in 1..Len(process.applied) :
       /\ process.applied[k][1] =
            process.received[Len(process.received) - Len(process.applied) + k]
       /\ ~process.applied[k][2] =>
            (k = Len(process.applied) /\ process.state = "false")
  /\ process.state = "false" =>
       (process.applied # <<>> /\ ~process.applied[Len(process.applied)][2])

\* A call accepted a message, rejected the next and returned false with a
\* later message still in the channel.
C26_Witness ==
  /\ process.state = "false"
  /\ Len(process.applied) = 2
  /\ chan # <<>>

\* The updates of up that are not Atomic, in list order, those of nested
\* Atomic updates in place.
RECURSIVE Flatten(_)
Flatten(up) ==
  IF up.tag # "Atomic" THEN <<up>>
  ELSE IF up.arg = <<>> THEN <<>>
  ELSE Flatten(Head(up.arg)) \o Flatten(Atomic(Tail(up.arg)))

\* The view after each update of a list was applied to it on its own, in
\* list order.
RECURSIVE Replay(_, _)
Replay(v, updates) ==
  IF updates = <<>> THEN v
  ELSE Replay(apply_client_to_view(v, Head(updates)), Tail(updates))

\* C27: applying Atomic(updates) leaves the view as applying each element of
\* updates in list order does, nested Atomic updates included.
C27_AtomicIsSequence ==
  applied.up.tag = "Atomic" => view = Replay(applied.before, Flatten(applied.up))

\* An Atomic with a nested Atomic was applied, and the order of its elements
\* shows: it moved the camera twice, to different positions.
C27_Witness ==
  /\ applied.up.tag = "Atomic"
  /\ Len(applied.up.arg) = 2
  /\ applied.up.arg[2].tag = "Atomic"
  /\ applied.up.arg[1] = Update("MoveCamera", 1)
  /\ applied.up.arg[2].arg[2] = Update("MoveCamera", 2)
  /\ view.camera = 2

\* C28: each triangle [v1, v2, center] of a tile lies inside the bounding
\* box stored for it, in x, y and z.
C28_TileTrianglesInBounds ==
  tile # NoTile =>
    \A k \in 1..Len(tile.block.vertex_coordinates) :
      \A v \in 1..3, a \in 1..3 :
        /\ tile.block.bounds[k].min[a] <= tile.block.vertex_coordinates[k][v][a]
        /\ tile.block.vertex_coordinates[k][v][a] <= tile.block.bounds[k].max[a]

\* The part of C28 that holds: the x range of every box, the z range of the
\* boxes of triangles 1, 2 and 4 and the upper end of the y range.
C28_TileTrianglesPartlyInBounds ==
  tile # NoTile =>
    \A k \in 1..Len(tile.block.vertex_coordinates) :
      \A v \in 1..3 :
        LET p == tile.block.vertex_coordinates[k][v]
            box == tile.block.bounds[k]
        IN  /\ box.min[1] <= p[1] /\ p[1] <= box.max[1]
            /\ p[2] <= box.max[2]
            /\ k # 3 => (box.min[3] <= p[3] /\ p[3] <= box.max[3])

(************************* the clients' channels ***************************)

\* C31: the first message ever put on a client's channel is the LeaseId that
\* carries its id, whatever other threads (Load, brushes, Ping, AddPlayer) do
\* while Init runs, and what the client's sender thread has written to the
\* socket is the beginning of what was put on the channel, in the same order.
C31_LeaseIdFirst ==
  \A c \in ClientIds :
    /\ queue[c] # <<>> => queue[c][1] = Message("LeaseId", NoKey, NoBlock, c)
    /\ Len(socket[c]) <= Len(queue[c])
    /\ \A i \in 1 .. Len(socket[c]) : socket[c][i] = queue[c][i]

\* A client whose LeaseId, then a block and a third message were enqueued by
\* different requests, two of them written to the socket so far, while another
\* thread is about to broadcast a block.
C31_Witness ==
  \E c \in ClientIds, t \in Threads :
    /\ Len(queue[c]) >= 3
    /\ queue[c][2].type = "UpdateBlock"
    /\ Len(socket[c]) = 2
    /\ pc[t] = "report_lock"

(************************** the order of the locks *************************)

HeldBy(t) == {l \in LockNames : Held(l, t)}

\* t cannot take its next step before u drops a lock.
WaitsFor(t, u) == \E l \in takes(t) \cap LockNames : Held(l, u)

\* A set of threads each of which waits for a lock held inside the set.
Deadlock == \E D \in (SUBSET Threads) \ {{}} : \A t \in D : \E u \in D : WaitsFor(t, u)

\* A ranking of the locks: rng before terrain_loader before all the others.
LockRank(l) == CASE l = "rng" -> 0 [] l = "terrain_loader" -> 1 [] OTHER -> 2

\* C32: no set of threads wait for each other, and every lock a thread takes
\* ranks above every lock it holds at that moment (rng, then terrain_loader,
\* then clients, players, physics, id_allocator, client_allocator), so the
\* orders in which locks are nested form no cycle; in particular
\* terrain_loader is never taken by a thread that holds any lock but rng.
C32_NoDeadlock ==
  /\ ~Deadlock
  /\ \A t \in Threads : \A h \in HeldBy(t) : \A l \in takes(t) :
       LockRank(h) < LockRank(l)

\* A thread that holds terrain_loader is about to take clients while another
\* thread waits for terrain_loader.
C32_Witness ==
  \E t, u \in Threads :
    /\ t # u
    /\ Held("terrain_loader", t)
    /\ takes(t) = {"clients"}
    /\ WaitsFor(u, t)

\* A thread inside an Add's brush, holding rng and terrain_loader, is about to
\* take clients.
C32_RngNested ==
  \E t \in Threads : HeldBy(t) = {"rng", "terrain_loader"} /\ pc[t] = "report_lock"

=============================================================================
